---- MODULE Spec2Model ----
(***************************************************************************)
(* Big Dipper: the sequencer runtime.                                      *)
(*   - SequencerClock (src/src/sequencer-clock.js) and its wiring to the   *)
(*     control row, updateClockBPM (src/src/main.js);                      *)
(*   - CrossTabSync (src/src/dip-switch.js).                               *)
(* Each object is one record variable; every method is an operator from    *)
(* the object before the call to the object after it, so that a handler    *)
(* that calls several methods is one action.                               *)
(***************************************************************************)
EXTENDS Integers, Sequences, FiniteSets, TLC

VARIABLES
    clock,        \* the SequencerClock object and the timers it owns
    now,          \* performance.now() / Date.now(), in ms
    app,          \* main.js: the control row, samplePlayer, sequencerStarted
    lastOp,       \* history: the handler that ran last
    calls,        \* history: the listener calls [listener, tickCount, threw] it made
    stopInEffect, \* history: stop() was called and start() was not called since
    emitted,      \* history: ticks emitted since start() last set tickCount = 0
    sync,         \* the CrossTabSync object of one tab, its timers and channel
    lastMsg,      \* history: the message handleMessage handled last
    prev,         \* history: role and leader of the tab before the last handler
    preset,       \* the preset codec: the row bytes, the token, the last results
    euclid,       \* one Euclidean row of a SamplePlayer and the ticks it is asked about
    rows,         \* the dip-switch-group elements of the page: the bytes of each row
    player,       \* the SamplePlayer of the page, its next tick, what the last tick played
    midi,         \* a MidiOutput: its port, its active notes, what the last tick sent
    tempo,        \* the settings handed to the tempo functions of a SequencerClock and their results
    rowSettings,  \* the settings handed to extractRowSettings and the fields it returned
    editor,       \* main.js expert mode: selectedByte, clipboard, the rows before the last paste
    peer          \* another tab that leads: its announce interval and its messages in flight

\* What the actions of the clock and of the application leave alone, what
\* the actions of CrossTabSync leave alone, and so on for each component.
outsideClock == <<sync, lastMsg, prev, preset, euclid, rows, player, midi, tempo, rowSettings, editor, peer>>
outsideSync == <<clock, app, calls, stopInEffect, emitted, preset, euclid, rows, player, midi, tempo, rowSettings, editor, peer>>
outsidePreset == <<clock, now, app, calls, stopInEffect, emitted, sync, lastMsg, prev, euclid,
                   rows, player, midi, tempo, rowSettings, editor, peer>>
outsideEuclid == <<clock, now, app, calls, stopInEffect, emitted, sync, lastMsg, prev, preset,
                   rows, player, midi, tempo, rowSettings, editor, peer>>
outsideRowSettings == <<clock, now, app, calls, stopInEffect, emitted, sync, lastMsg, prev,
                        preset, euclid, rows, player, midi, tempo, editor, peer>>
outsidePage == <<stopInEffect, emitted, sync, lastMsg, prev, preset, euclid, player, midi,
                 tempo, rowSettings, editor, peer>>
outsideTempo == <<clock, now, app, calls, stopInEffect, emitted, sync, lastMsg, prev, preset,
                  euclid, rows, player, midi, rowSettings, editor, peer>>
outsideMidi == <<clock, now, app, calls, stopInEffect, emitted, sync, lastMsg, prev, preset,
                 euclid, player, tempo, rowSettings, editor, peer>>
outsidePlayer == <<clock, now, app, calls, stopInEffect, emitted, sync, lastMsg, prev, preset,
                   euclid, midi, tempo, rowSettings, editor, peer>>
outsideEditor == <<now, calls, stopInEffect, emitted, sync, lastMsg, prev, preset,
                   euclid, player, midi, tempo, rowSettings, peer>>
outsideLoop == <<sync, lastMsg, prev, preset, euclid, rows, midi, tempo, rowSettings, editor, peer>>
outsideLive == <<clock, app, calls, stopInEffect, emitted, preset, euclid, rows, player, midi,
                 tempo, rowSettings, editor>>
vars == <<clock, now, app, lastOp, calls, stopInEffect, emitted, sync, lastMsg, prev,
          preset, euclid, rows, player, midi, tempo, rowSettings, editor, peer>>

Null == "null"

Max(a, b) == IF a >= b THEN a ELSE b

(***************************************************************************)
(* Bounds of the model.                                                    *)
(***************************************************************************)
TimeStep == 125       \* ms by which Elapse advances the time
MaxNow == 375         \* the time stops advancing here
MaxTimerId == 3       \* setTimeout calls of one behaviour
MaxAwaiting == 2      \* start() calls suspended at await resume()
SyncTimeStep == 1000  \* ms by which SyncElapse advances the time
SyncMaxNow == 4000    \* the time of CrossTabSync stops advancing here

\* BPM values are kept as BPM * BPMScale so that baseTempo / (8 * 4) is whole.
BPMScale == 32
maxFactor == 8

Listeners == <<"L1", "L2">>

\* Control-row settings the model draws from: baseTempo 0 (BPM 0), baseTempo
\* 120 divided by 1 (BPM 30, a tick every 500 ms), baseTempo 120 multiplied
\* by 4 (BPM 120, a tick every 125 ms). Their tick intervals are whole ms.
TempoSettings == {0, 30720, 30912}

\* The other tabs, the settings they lead with, the ticks they broadcast.
Peers == {"p1", "p2"}
LeaderSettings == {30720, 30912}
TickTimes == {1}
TickCounts == {3}

(***************************************************************************)
(* SequencerClock: pure functions.                                         *)
(***************************************************************************)
Pow2(n) == IF n = 0 THEN 1 ELSE IF n = 1 THEN 2 ELSE IF n = 2 THEN 4 ELSE 8

extractTempoSettings(settings) ==
    LET secondByte == settings % 256
    IN  [baseTempo |-> (settings \div 256) % 256,
         isMultiply |-> ((secondByte \div 128) % 2) = 1,
         tempoFactorExponent |-> (secondByte \div 32) % 4]

\* calculateBPM that multiplies whatever isMultiply says.
calculateBPMAlwaysMultiply(settings) ==
    LET t == extractTempoSettings(settings)
        factor == Pow2(t.tempoFactorExponent)
    IN  (BPMScale * t.baseTempo * factor) \div 4

calculateBPM(settings) ==
    LET t == extractTempoSettings(settings)
        factor == Pow2(t.tempoFactorExponent)
    IN  IF t.isMultiply
        THEN (BPMScale * t.baseTempo * factor) \div 4
        ELSE (BPMScale * t.baseTempo) \div (factor * 4)

\* shouldProcessTick with every tick accepted whatever the ratio.
shouldProcessTickAlways(tickCount, settings) ==
    extractTempoSettings(settings).baseTempo # 0

\* shouldProcessTick: ratio is factor / maxFactor or 1 / (maxFactor * factor),
\* a power of two, and step = Math.round(1 / ratio) is its inverse.
shouldProcessTick(tickCount, settings) ==
    LET t == extractTempoSettings(settings)
        factor == Pow2(t.tempoFactorExponent)
        step == IF t.isMultiply THEN maxFactor \div factor ELSE maxFactor * factor
    IN  IF t.baseTempo = 0 THEN FALSE
        ELSE IF t.isMultiply /\ factor >= maxFactor THEN TRUE
        ELSE tickCount % step = 0

\* calculateEffectiveTickCount that divides by maxFactor alone when dividing.
calculateEffectiveTickCountNoFactor(tickCount, settings) ==
    LET t == extractTempoSettings(settings)
        factor == Pow2(t.tempoFactorExponent)
    IN  IF t.isMultiply
        THEN (tickCount * factor) \div maxFactor
        ELSE tickCount \div maxFactor

\* calculateEffectiveTickCount: Math.floor of the tick count scaled by the
\* tempo factor.
calculateEffectiveTickCount(tickCount, settings) ==
    LET t == extractTempoSettings(settings)
        factor == Pow2(t.tempoFactorExponent)
    IN  IF t.isMultiply
        THEN (tickCount * factor) \div maxFactor
        ELSE tickCount \div (maxFactor * factor)

\* The tempo functions applied to settings: the BPM, and for tick tickCount - 1
\* whether it is processed and its effective tick count; accepted counts the
\* ticks processed so far; prevSettings and prevBPM are those of the call
\* before.
TempoOf(settings) ==
    [settings |-> settings,
     bpm |-> calculateBPM(settings),
     prevSettings |-> settings,
     prevBPM |-> calculateBPM(settings),
     tickCount |-> 0,
     processed |-> FALSE,
     effective |-> 0,
     accepted |-> 0]

NewTempo == TempoOf(30720)

calculateTickInterval(bpm) ==
    IF bpm <= 0 THEN 0 ELSE (60 * BPMScale * 1000) \div (bpm * 4)

(***************************************************************************)
(* SequencerClock: methods. c is the object, t the time of the call.       *)
(***************************************************************************)
NewClock ==
    [audioContext |-> "none",     \* "none" | "suspended" | "running"
     isRunning |-> FALSE,
     currentBPM |-> 120 * BPMScale,
     tickInterval |-> 0,
     listeners |-> <<>>,
     timeoutId |-> 0,             \* null: 0, as falsy as null (timer ids are >= 1)
     expectedTickTime |-> 0,
     tickCount |-> 0,
     timers |-> {},               \* the pending setTimeout timers [id, due]
     nextTimerId |-> 1,           \* the id the next setTimeout returns
     awaiting |-> 0]              \* start() calls suspended at await resume()

scheduleNextTick(c, t) ==
    IF ~c.isRunning THEN c
    ELSE LET drift == t - c.expectedTickTime
             delay == Max(0, c.tickInterval - drift)
         IN  [c EXCEPT !.expectedTickTime = @ + c.tickInterval,
                       !.timeoutId = c.nextTimerId,
                       !.timers = @ \cup {[id |-> c.nextTimerId, due |-> t + delay]},
                       !.nextTimerId = @ + 1]

\* start(), from isRunning = true to the end: what runs after the await too.
\* startTime is written here and read nowhere else: it is t.
startBody(c, t) ==
    scheduleNextTick([c EXCEPT !.isRunning = TRUE,
                               !.tickCount = 0,
                               !.tickInterval = calculateTickInterval(c.currentBPM),
                               !.expectedTickTime = t], t)

\* start() up to its first suspension point (or to its end when it has none).
start(c, t) ==
    IF c.isRunning THEN c
    ELSE IF c.currentBPM <= 0 THEN c
    ELSE IF c.audioContext = "none" THEN c                   \* throws
    ELSE IF c.audioContext = "suspended" THEN [c EXCEPT !.awaiting = @ + 1]
    ELSE startBody(c, t)

\* The continuation of a start() whose await resume() has resolved.
startResumed(c, t) ==
    startBody([c EXCEPT !.awaiting = @ - 1, !.audioContext = "running"], t)

stop(c) ==
    LET c1 == [c EXCEPT !.isRunning = FALSE]
    IN  IF c1.timeoutId # 0
        THEN [c1 EXCEPT !.timers = {x \in @ : x.id # c1.timeoutId},
                        !.timeoutId = 0]
        ELSE c1

setBPM(c, bpm) ==
    [c EXCEPT !.currentBPM = bpm, !.tickInterval = calculateTickInterval(bpm)]

onTick(c, l) ==
    IF \E i \in 1..Len(c.listeners) : c.listeners[i] = l THEN c
    ELSE [c EXCEPT !.listeners = Append(@, l)]

\* emitTick with the forEach ended by the first listener that throws.
RECURSIVE notifiedFromAbort(_, _, _)
notifiedFromAbort(ls, i, threw) ==
    IF i > Len(ls) THEN <<>>
    ELSE IF ls[i] \in threw THEN <<ls[i]>>
    ELSE <<ls[i]>> \o notifiedFromAbort(ls, i + 1, threw)

\* The listeners emitTick calls, in order, when the listeners in threw throw:
\* each call is in its own try/catch, so all of them.
RECURSIVE notifiedFrom(_, _, _)
notifiedFrom(ls, i, threw) ==
    IF i > Len(ls) THEN <<>>
    ELSE <<ls[i]>> \o notifiedFrom(ls, i + 1, threw)

emitTickCalls(c, threw) ==
    LET ns == notifiedFrom(c.listeners, 1, threw)
    IN  [i \in 1..Len(ns) |->
            [listener |-> ns[i], tickCount |-> c.tickCount, threw |-> ns[i] \in threw]]

emitTick(c) == [c EXCEPT !.tickCount = @ + 1]

\* The setTimeout callback of scheduleNextTick.
timerCallback(c, t) ==
    IF ~c.isRunning THEN c ELSE scheduleNextTick(emitTick(c), t)

\* clock.init() (called at src/src/main.js:660): creates the AudioContext,
\* which the browser hands over suspended or running.
init(c, st) == [c EXCEPT !.audioContext = st]

\* start() runs to its end within the call: it sets isRunning and tickCount.
startCompletes(c) ==
    ~c.isRunning /\ c.currentBPM > 0 /\ c.audioContext = "running"

(***************************************************************************)
(* main.js: the control row and updateClockBPM.                            *)
(***************************************************************************)
NewApp ==
    [settings |-> 30720,      \* defaultValues[0].settings = 0b0111100000000000
     playBit |-> 0,           \* defaultValues[0].notes = 0
     phase |-> "idle"]        \* "idle" | "init" | "loading" | "ready"

\* samplePlayer !== null: from new SamplePlayer(...) on.
samplePlayerSet(a) == a.phase \in {"loading", "ready"}

canPlay(a) == a.playBit = 1 /\ calculateBPM(a.settings) > 0

updateClockBPM(c, a, t) ==
    LET c1 == setBPM(c, calculateBPM(a.settings))
    IN  IF canPlay(a) /\ ~c1.isRunning /\ samplePlayerSet(a) THEN start(c1, t)
        ELSE IF ~canPlay(a) /\ c1.isRunning THEN stop(c1)
        ELSE c1

\* What updateClockBPM does to the history variables.
updateClockBPMStop(c, a) == ~canPlay(a) /\ c.isRunning
updateClockBPMStart(c, a) == canPlay(a) /\ ~c.isRunning /\ samplePlayerSet(a)

(***************************************************************************)
(* CrossTabSync. s is the object, t the time (Date.now()) of the call.     *)
(* availableLeaders is a Map: a sequence of entries in insertion order.    *)
(* cbLog and posted collect the tickCallback calls and the postMessage     *)
(* calls of the handler that runs; threw is set when it ends by the        *)
(* InvalidStateError of postMessage on a closed channel.                   *)
(***************************************************************************)
NoMsg == [type |-> "none", data |-> [tabId |-> Null]]
None == -1                    \* null where the other values are numbers
SelfId == "self"              \* this.tabId
LeaderExpiryMs == 3000

RoleOf(s) ==
    [isLeader |-> s.isLeader, isFollower |-> s.isFollower,
     currentLeaderId |-> s.currentLeaderId]

NewSync ==
    [channelOpen |-> TRUE,
     isLeader |-> FALSE,
     isFollower |-> FALSE,
     currentLeaderId |-> Null,
     availableLeaders |-> <<>>,
     leaderAnnounceInterval |-> FALSE,   \* the 1500 ms interval is set
     announceArgs |-> [bpm |-> None, maxBPM |-> None, settings |-> None],
                                         \* (bpm, maxBPM, settings) of its closure
     leaderTimeout |-> FALSE,            \* the 1000 ms interval is set
     tickCallback |-> FALSE,             \* a callback is registered
     leaderMaxBPM |-> None,
     leaderSettings |-> None,
     cbLog |-> <<>>,
     posted |-> <<>>,
     threw |-> FALSE]

calculateMaxBPM(baseTempo) == baseTempo * 2

\* The (bpm, maxBPM, settings) a tab with control-row settings st passes on.
LeaderArgs(st) ==
    [bpm |-> calculateBPM(st),
     maxBPM |-> BPMScale * calculateMaxBPM(extractTempoSettings(st).baseTempo),
     settings |-> st]

\* Map operations.
mapHas(m, id) == \E i \in 1..Len(m) : m[i].tabId = id
mapGet(m, id) == m[CHOOSE i \in 1..Len(m) : m[i].tabId = id]
mapSet(m, e) ==
    IF mapHas(m, e.tabId)
    THEN [i \in 1..Len(m) |-> IF m[i].tabId = e.tabId THEN e ELSE m[i]]
    ELSE Append(m, e)
mapDelete(m, id) == SelectSeq(m, LAMBDA e : e.tabId # id)

postMessage(s, msg) ==
    IF s.channelOpen THEN [s EXCEPT !.posted = Append(@, msg)]
    ELSE [s EXCEPT !.threw = TRUE]

\* this.tickCallback(time, tickCount, settings)
callTickCallback(s, time, tickCount, settings) ==
    [s EXCEPT !.cbLog = Append(@, [time |-> time, tickCount |-> tickCount,
                                   settings |-> settings])]

\* selectNewLeader that keeps the expired entries.
selectNewLeaderNoPurge(s, t) ==
    [s EXCEPT !.currentLeaderId =
        IF Len(s.availableLeaders) > 0 THEN s.availableLeaders[1].tabId ELSE Null]

selectNewLeader(s, t) ==
    LET live == SelectSeq(s.availableLeaders,
                          LAMBDA e : ~(t - e.lastSeen > LeaderExpiryMs))
    IN  [s EXCEPT !.availableLeaders = live,
                  !.currentLeaderId = IF Len(live) > 0 THEN live[1].tabId ELSE Null]

\* The replay of the current leader's settings with a null time (the block
\* after each selectNewLeader() of startFollower and of the sweep).
replaySettings(s) ==
    IF s.currentLeaderId # Null /\ mapHas(s.availableLeaders, s.currentLeaderId)
    THEN LET leader == mapGet(s.availableLeaders, s.currentLeaderId)
         IN  IF leader.settings # None /\ s.tickCallback
             THEN callTickCallback(s, None, 0, leader.settings)
             ELSE s
    ELSE s

\* handleMessage, case 'tick', forwarding whoever sent the tick.
handleTickAnySender(s, d, t) ==
    LET s1 == IF s.isFollower
              THEN (IF s.tickCallback
                    THEN callTickCallback(s, d.time, d.tickCount, d.settings)
                    ELSE s)
              ELSE s
    IN  IF mapHas(s1.availableLeaders, d.tabId)
        THEN [s1 EXCEPT !.availableLeaders =
                 mapSet(@, [mapGet(@, d.tabId) EXCEPT !.lastSeen = t])]
        ELSE s1

\* handleMessage, case 'tick'.
handleTick(s, d, t) ==
    LET s1 == IF s.isFollower /\ d.tabId = s.currentLeaderId
              THEN (IF s.tickCallback
                    THEN callTickCallback(s, d.time, d.tickCount, d.settings)
                    ELSE s)
              ELSE s
    IN  IF mapHas(s1.availableLeaders, d.tabId)
        THEN [s1 EXCEPT !.availableLeaders =
                 mapSet(@, [mapGet(@, d.tabId) EXCEPT !.lastSeen = t])]
        ELSE s1

\* handleMessage, case 'leader-announce', without the replay on adoption.
handleAnnounceNoReplay(s, d, t) ==
    IF ~s.isLeader \/ d.tabId # SelfId
    THEN LET s1 == [s EXCEPT !.availableLeaders =
                       mapSet(@, [tabId |-> d.tabId, lastSeen |-> t, bpm |-> d.bpm,
                                  maxBPM |-> d.maxBPM, settings |-> d.settings])]
         IN  IF s1.isFollower /\ s1.currentLeaderId = Null
             THEN [s1 EXCEPT !.currentLeaderId = d.tabId]
             ELSE IF s1.isFollower /\ s1.currentLeaderId = d.tabId
             THEN (IF s1.tickCallback /\ d.settings # None
                   THEN callTickCallback(s1, None, 0, d.settings)
                   ELSE s1)
             ELSE s1
    ELSE s

\* handleMessage, case 'leader-announce'.
handleAnnounce(s, d, t) ==
    IF ~s.isLeader \/ d.tabId # SelfId
    THEN LET s1 == [s EXCEPT !.availableLeaders =
                       mapSet(@, [tabId |-> d.tabId, lastSeen |-> t, bpm |-> d.bpm,
                                  maxBPM |-> d.maxBPM, settings |-> d.settings])]
         IN  IF s1.isFollower /\ s1.currentLeaderId = Null
             THEN LET s2 == [s1 EXCEPT !.currentLeaderId = d.tabId]
                  IN  IF s2.tickCallback /\ d.settings # None
                      THEN callTickCallback(s2, None, 0, d.settings)
                      ELSE s2
             ELSE IF s1.isFollower /\ s1.currentLeaderId = d.tabId
             THEN (IF s1.tickCallback /\ d.settings # None
                   THEN callTickCallback(s1, None, 0, d.settings)
                   ELSE s1)
             ELSE s1
    ELSE s

\* handleMessage, case 'leader-stop', without the new election.
handleLeaderStopNoElection(s, d, t) ==
    [s EXCEPT !.availableLeaders = mapDelete(@, d.tabId)]

\* handleMessage, case 'leader-stop'.
handleLeaderStop(s, d, t) ==
    LET s1 == [s EXCEPT !.availableLeaders = mapDelete(@, d.tabId)]
    IN  IF s1.isFollower /\ s1.currentLeaderId = d.tabId
        THEN selectNewLeader(s1, t)
        ELSE s1

handleMessage(s, msg, t) ==
    IF msg.type = "tick" THEN handleTick(s, msg.data, t)
    ELSE IF msg.type = "leader-announce" THEN handleAnnounce(s, msg.data, t)
    ELSE IF msg.type = "leader-stop" THEN handleLeaderStop(s, msg.data, t)
    ELSE s

announceLeader(s, a) ==
    postMessage(s, [type |-> "leader-announce",
                    data |-> [tabId |-> SelfId, bpm |-> a.bpm, maxBPM |-> a.maxBPM,
                              settings |-> a.settings]])

stopFollower(s) ==
    IF ~s.isFollower THEN s
    ELSE [s EXCEPT !.isFollower = FALSE,
                   !.currentLeaderId = Null,
                   !.tickCallback = FALSE,
                   !.leaderTimeout = FALSE]

\* startLeader that keeps following.
startLeaderKeepFollowing(s, a) ==
    IF s.isLeader THEN s
    ELSE LET s2 == [s EXCEPT !.isLeader = TRUE,
                             !.leaderMaxBPM = a.maxBPM,
                             !.leaderSettings = a.settings]
             s3 == announceLeader(s2, a)
         IN  IF s3.threw THEN s3
             ELSE [s3 EXCEPT !.leaderAnnounceInterval = TRUE, !.announceArgs = a]

startLeader(s, a) ==
    IF s.isLeader THEN s
    ELSE LET s1 == stopFollower(s)
             s2 == [s1 EXCEPT !.isLeader = TRUE,
                              !.isFollower = FALSE,
                              !.leaderMaxBPM = a.maxBPM,
                              !.leaderSettings = a.settings]
             s3 == announceLeader(s2, a)
         IN  IF s3.threw THEN s3
             ELSE [s3 EXCEPT !.leaderAnnounceInterval = TRUE, !.announceArgs = a]

\* The callback of the 1500 ms interval announcing leaderMaxBPM as the bpm.
announceIntervalMaxBPM(s) ==
    IF s.isLeader THEN announceLeader(s, [s.announceArgs EXCEPT !.bpm = s.leaderMaxBPM])
    ELSE s

\* The callback of the 1500 ms interval of startLeader.
announceInterval(s) ==
    IF s.isLeader THEN announceLeader(s, s.announceArgs) ELSE s

stopLeader(s) ==
    IF ~s.isLeader THEN s
    ELSE LET s1 == postMessage([s EXCEPT !.isLeader = FALSE],
                               [type |-> "leader-stop", data |-> [tabId |-> SelfId]])
         IN  IF s1.threw THEN s1
             ELSE [s1 EXCEPT !.availableLeaders = mapDelete(@, SelfId),
                             !.leaderAnnounceInterval = FALSE]

\* (leaderSettings is null or a number, never undefined.)
broadcastTick(s, time, tickCount, settings) ==
    IF s.isLeader
    THEN postMessage(s, [type |-> "tick",
                         data |-> [tabId |-> SelfId, time |-> time,
                                   tickCount |-> tickCount, settings |-> settings]])
    ELSE s

\* The loop of the sweep with an entry evicted 1000 ms after it was seen.
RECURSIVE sweepLoopEarly(_, _, _, _)
sweepLoopEarly(s, ks, i, t) ==
    IF i > Len(ks) THEN s
    ELSE IF ~mapHas(s.availableLeaders, ks[i]) THEN sweepLoopEarly(s, ks, i + 1, t)
    ELSE IF t - mapGet(s.availableLeaders, ks[i]).lastSeen > 1000
    THEN LET s1 == [s EXCEPT !.availableLeaders = mapDelete(@, ks[i])]
             s2 == IF s1.currentLeaderId = ks[i]
                   THEN replaySettings(selectNewLeader(s1, t))
                   ELSE s1
         IN  sweepLoopEarly(s2, ks, i + 1, t)
    ELSE sweepLoopEarly(s, ks, i + 1, t)

\* The loop of the sweep over the entries ks the Map held when it began; an
\* entry deleted before the loop reaches it is not visited.
RECURSIVE sweepLoop(_, _, _, _)
sweepLoop(s, ks, i, t) ==
    IF i > Len(ks) THEN s
    ELSE IF ~mapHas(s.availableLeaders, ks[i]) THEN sweepLoop(s, ks, i + 1, t)
    ELSE IF t - mapGet(s.availableLeaders, ks[i]).lastSeen > LeaderExpiryMs
    THEN LET s1 == [s EXCEPT !.availableLeaders = mapDelete(@, ks[i])]
             s2 == IF s1.currentLeaderId = ks[i]
                   THEN replaySettings(selectNewLeader(s1, t))
                   ELSE s1
         IN  sweepLoop(s2, ks, i + 1, t)
    ELSE sweepLoop(s, ks, i + 1, t)

\* The callback of the 1000 ms interval of startFollower.
sweep(s, t) ==
    IF ~s.isFollower THEN s
    ELSE LET ks == [i \in 1..Len(s.availableLeaders) |-> s.availableLeaders[i].tabId]
             s1 == sweepLoop(s, ks, 1, t)
         IN  IF s1.currentLeaderId = Null
             THEN replaySettings(selectNewLeader(s1, t))
             ELSE s1

startFollower(s, t) ==
    IF s.isFollower THEN s
    ELSE LET s1 == stopLeader(s)
         IN  IF s1.threw THEN s1
             ELSE LET s2 == [s1 EXCEPT !.isFollower = TRUE,
                                       !.isLeader = FALSE,
                                       !.tickCallback = TRUE]
                      s3 == replaySettings(selectNewLeader(s2, t))
                  IN  [s3 EXCEPT !.leaderTimeout = TRUE]

destroy(s) ==
    LET s1 == stopLeader(s)
    IN  IF s1.threw THEN s1
        ELSE [stopFollower(s1) EXCEPT !.channelOpen = FALSE]

(***************************************************************************)
(* Another tab, PeerId, seen from the channel: the messages its            *)
(* CrossTabSync posts as a leader, each with the time it was posted, in    *)
(* the order the channel delivers them; nextAnnounce is the time at which  *)
(* its 1500 ms interval is due next.                                       *)
(***************************************************************************)
PeerId == "p1"
PeerArgs == LeaderArgs(30912)        \* what the peer leads with: settings 0x78C0
AnnouncePeriodMs == 1500

NewPeer == [isLeader |-> FALSE, nextAnnounce |-> 0, inFlight |-> <<>>]

\* The messages of the peer as the channel delivers them.
peerMessage(m) ==
    IF m.type = "leader-announce"
    THEN [type |-> "leader-announce",
          data |-> [tabId |-> PeerId, bpm |-> PeerArgs.bpm,
                    maxBPM |-> PeerArgs.maxBPM, settings |-> PeerArgs.settings]]
    ELSE [type |-> "leader-stop", data |-> [tabId |-> PeerId]]

\* startLeader of the peer at time t: the announce and the interval.
peerStartLeader(p, t) ==
    IF p.isLeader THEN p
    ELSE [p EXCEPT !.isLeader = TRUE,
                   !.inFlight = Append(@, [type |-> "leader-announce", sentAt |-> t]),
                   !.nextAnnounce = t + AnnouncePeriodMs]

\* The interval of the peer with a period of 3500 ms.
peerAnnounceIntervalSlow(p, t) ==
    IF ~p.isLeader THEN p
    ELSE [p EXCEPT !.inFlight = Append(@, [type |-> "leader-announce", sentAt |-> t]),
                   !.nextAnnounce = @ + AnnouncePeriodMs + 2000]

\* The callback of the 1500 ms interval of the peer, run at time t.
peerAnnounceInterval(p, t) ==
    IF ~p.isLeader THEN p
    ELSE [p EXCEPT !.inFlight = Append(@, [type |-> "leader-announce", sentAt |-> t]),
                   !.nextAnnounce = @ + AnnouncePeriodMs]

\* stopLeader of the peer at time t.
peerStopLeader(p, t) ==
    IF ~p.isLeader THEN p
    ELSE [p EXCEPT !.isLeader = FALSE,
                   !.inFlight = Append(@, [type |-> "leader-stop", sentAt |-> t])]

(***************************************************************************)
(* The preset codec (src/src/tactile-button.js, encodePreset/decodePreset). *)
(* A string is the sequence of its characters; a result is a record whose  *)
(* field ok is FALSE when the function threw.                              *)
(***************************************************************************)
\* The base64 alphabet of btoa/atob: the character of the 6-bit value v is
\* Base64Alphabet[v + 1].
Base64Alphabet ==
    <<
      "A", "B", "C", "D", "E", "F", "G", "H", "I", "J", "K", "L", "M", "N", "O", "P",
      "Q", "R", "S", "T", "U", "V", "W", "X", "Y", "Z", "a", "b", "c", "d", "e", "f",
      "g", "h", "i", "j", "k", "l", "m", "n", "o", "p", "q", "r", "s", "t", "u", "v",
      "w", "x", "y", "z", "0", "1", "2", "3", "4", "5", "6", "7", "8", "9", "+", "/" >>

\* DEFAULT_PRESET
DEFAULT_PRESET ==
    <<
      "e", "M", "A", "A", "A", "A", "A", "A", "A", "A", "A", "A", "A", "Q", "A", "A",
      "A", "A", "A", "A", "A", "g", "A", "A", "A", "A", "A", "A", "A", "w", "A", "A",
      "A", "A", "A", "A", "B", "A", "A", "A", "A", "A", "A", "A", "B", "Q", "A", "A",
      "A", "A", "A", "A", "B", "g", "A", "A", "A", "A", "A", "A", "B", "w", "A", "A",
      "A", "A", "A", "A" >>

Base64Index(c) == (CHOOSE i \in 1..Len(Base64Alphabet) : Base64Alphabet[i] = c) - 1
IsBase64Char(c) == \E i \in 1..Len(Base64Alphabet) : Base64Alphabet[i] = c

\* btoa(String.fromCharCode(...data)): three bytes make four characters, a
\* rest of one or two bytes is padded with "=".
RECURSIVE btoa(_)
btoa(data) ==
    IF Len(data) = 0 THEN <<>>
    ELSE IF Len(data) = 1
    THEN << Base64Alphabet[(data[1] \div 4) + 1],
            Base64Alphabet[((data[1] % 4) * 16) + 1], "=", "=" >>
    ELSE IF Len(data) = 2
    THEN << Base64Alphabet[(data[1] \div 4) + 1],
            Base64Alphabet[((data[1] % 4) * 16 + (data[2] \div 16)) + 1],
            Base64Alphabet[((data[2] % 16) * 4) + 1], "=" >>
    ELSE << Base64Alphabet[(data[1] \div 4) + 1],
            Base64Alphabet[((data[1] % 4) * 16 + (data[2] \div 16)) + 1],
            Base64Alphabet[((data[2] % 16) * 4 + (data[3] \div 64)) + 1],
            Base64Alphabet[(data[3] % 64) + 1] >>
         \o btoa(SubSeq(data, 4, Len(data)))

\* The bytes of a string of base64 characters without padding whose length
\* is not 1 modulo 4; the bits left over in a last group are dropped.
RECURSIVE atobGroups(_)
atobGroups(cs) ==
    IF Len(cs) < 2 THEN <<>>
    ELSE LET a == Base64Index(cs[1])
             b == Base64Index(cs[2])
         IN  IF Len(cs) = 2 THEN << a * 4 + (b \div 16) >>
             ELSE LET c == Base64Index(cs[3])
                  IN  IF Len(cs) = 3
                      THEN << a * 4 + (b \div 16), (b % 16) * 16 + (c \div 4) >>
                      ELSE << a * 4 + (b \div 16), (b % 16) * 16 + (c \div 4),
                              (c % 4) * 64 + Base64Index(cs[4]) >>
                           \o atobGroups(SubSeq(cs, 5, Len(cs)))

\* atob (forgiving-base64 decode): white space is removed; when the length
\* is then a multiple of 4 one or two "=" at the end are removed; a length of 1 modulo 4 or a character
\* outside the alphabet is an InvalidCharacterError.
atob(input) ==
    LET str == SelectSeq(input, LAMBDA c : c # " ")
        n == Len(str)
        strip == IF n % 4 = 0 /\ n >= 2 /\ str[n] = "=" /\ str[n - 1] = "=" THEN 2
                 ELSE IF n % 4 = 0 /\ n >= 1 /\ str[n] = "=" THEN 1
                 ELSE 0
        cs == SubSeq(str, 1, n - strip)
    IN  IF Len(cs) % 4 = 1 \/ \E i \in 1..Len(cs) : ~IsBase64Char(cs[i])
        THEN [ok |-> FALSE, data |-> <<>>]
        ELSE [ok |-> TRUE, data |-> atobGroups(cs)]

\* str.replace(/\+/g, '-').replace(/\//g, '_').replace(/=+$/, '')
RECURSIVE stripPadding(_)
stripPadding(str) ==
    IF Len(str) > 0 /\ str[Len(str)] = "="
    THEN stripPadding(SubSeq(str, 1, Len(str) - 1))
    ELSE str

toBase64URL(base64) ==
    stripPadding([i \in 1..Len(base64) |->
                      IF base64[i] = "+" THEN "-"
                      ELSE IF base64[i] = "/" THEN "_" ELSE base64[i]])

\* while (base64.length % 4) base64 += '='
RECURSIVE addPadding(_)
addPadding(str) ==
    IF Len(str) % 4 # 0 THEN addPadding(Append(str, "=")) ELSE str

\* fromBase64URL that leaves "-" and "_" as they are.
fromBase64URLKeep(str) == addPadding(str)

\* base64String.replace(/-/g, '+').replace(/_/g, '/') and the padding.
fromBase64URL(str) ==
    addPadding([i \in 1..Len(str) |->
                    IF str[i] = "-" THEN "+"
                    ELSE IF str[i] = "_" THEN "/" ELSE str[i]])

RECURSIVE flatten(_)
flatten(rs) ==
    IF Len(rs) = 0 THEN <<>> ELSE Head(rs) \o flatten(Tail(rs))

PresetSettingsBytes == 3
PresetRows == 8
PresetRowBytes == 6
PresetLength == 51

EncodeFailed == [ok |-> FALSE, token |-> <<>>]

encodePreset(settingsRowBytes, instrumentRowBytes) ==
    IF Len(settingsRowBytes) < PresetSettingsBytes THEN EncodeFailed
    ELSE IF Len(instrumentRowBytes) # PresetRows THEN EncodeFailed
    ELSE IF \E row \in 1..PresetRows : Len(instrumentRowBytes[row]) # PresetRowBytes
    THEN EncodeFailed
    ELSE LET flat == flatten(instrumentRowBytes)
             data == [i \in 1..PresetSettingsBytes |-> settingsRowBytes[i] % 256]
                     \o [i \in 1..(PresetRows * PresetRowBytes) |-> flat[i] % 256]
         IN  [ok |-> TRUE, token |-> toBase64URL(btoa(data))]

DecodeFailed == [ok |-> FALSE, settingsRowBytes |-> <<>>, instrumentRowBytes |-> <<>>]

\* The result of decodePreset from the decoded bytes data; a byte beyond the
\* end of data is undefined, written 0 here.
presetOf(data) ==
    LET at(i) == IF i <= Len(data) THEN data[i] ELSE 0
    IN  [ok |-> TRUE,
         settingsRowBytes |-> << at(1), at(2), at(3) >>,
         instrumentRowBytes |->
            [row \in 1..PresetRows |->
                [i \in 1..PresetRowBytes |->
                    at(PresetSettingsBytes + (row - 1) * PresetRowBytes + i)]]]

\* decodePreset without the check of the length.
decodePresetAnyLength(tok) ==
    IF ~tok.isString \/ Len(tok.chars) = 0 THEN DecodeFailed
    ELSE LET binaryString == atob(fromBase64URL(tok.chars))
         IN  IF ~binaryString.ok THEN DecodeFailed
             ELSE presetOf(binaryString.data)

\* tok is the argument: a string (isString, chars) or another value.
decodePreset(tok) ==
    IF ~tok.isString \/ Len(tok.chars) = 0 THEN DecodeFailed
    ELSE LET binaryString == atob(fromBase64URL(tok.chars))
         IN  IF ~binaryString.ok THEN DecodeFailed
             ELSE IF Len(binaryString.data) # PresetLength THEN DecodeFailed
             ELSE presetOf(binaryString.data)

StringToken(chars) == [isString |-> TRUE, chars |-> chars]
NotAString == [isString |-> FALSE, chars |-> <<>>]

\* The rows as DEFAULT_PRESET gives them. encoded and decoded are the results
\* of the last encodePreset of these rows and of the last decodePreset of
\* this token (failed when there was none).
NewPreset ==
    LET d == decodePreset(StringToken(DEFAULT_PRESET))
    IN  [settingsRowBytes |-> d.settingsRowBytes,
         instrumentRowBytes |-> d.instrumentRowBytes,
         token |-> StringToken(DEFAULT_PRESET),
         encoded |-> EncodeFailed,
         decoded |-> DecodeFailed,
         edits |-> 0]

(***************************************************************************)
(* DipSwitch and DipSwitchGroup (src/src/dip-switch.js,                    *)
(* src/src/dip-switch-group.js): a row is the sequence of the bytes of its *)
(* switches. The bitwise operators of JavaScript work on 32-bit signed     *)
(* integers.                                                               *)
(***************************************************************************)
Min(a, b) == IF a <= b THEN a ELSE b

RECURSIVE TwoTo(_)
TwoTo(n) == IF n = 0 THEN 1 ELSE 2 * TwoTo(n - 1)

clampByte(n) == Max(0, Min(255, n))

\* (x << 8) | byte for a 32-bit signed x and a byte: the low 24 bits of x
\* become the high 24 bits of the result, bit 23 its sign.
shl8or(x, byte) ==
    LET low == x % 16777216
    IN  IF low >= 8388608 THEN (low - 16777216) * 256 + byte
        ELSE low * 256 + byte

\* The loops of the getter over the switches first..last.
RECURSIVE joinBytes(_, _, _, _)
joinBytes(acc, bytes, i, last) ==
    IF i > last THEN acc
    ELSE joinBytes(shl8or(acc, bytes[i]), bytes, i + 1, last)

\* get value() of DipSwitchGroup.
groupValue(bytes) ==
    [settings |-> joinBytes(0, bytes, 1, Min(2, Len(bytes))),
     notes |-> joinBytes(0, bytes, 3, Len(bytes))]

\* setAllBytes(bytes): every switch that exists takes clampByte(byte | 0).
setAllBytes(row, bytes) ==
    [i \in 1..Len(row) |-> IF i <= Len(bytes) THEN clampByte(bytes[i]) ELSE row[i]]

\* (x >> shift) & 0xff
byteAt(x, shift) == (x \div TwoTo(shift)) % 256

(***************************************************************************)
(* SamplePlayer (src/src/sample-player.js). A JavaScript value that may be *)
(* undefined is "true", "false" or "undefined".                            *)
(***************************************************************************)
Truthy(v) == v = "true"
JSBool(b) == IF b THEN "true" ELSE "false"

\* a % n of JavaScript: the sign of the result is the sign of a.
JSRem(a, n) == IF a >= 0 THEN a % n ELSE -((-a) % n)

\* (BigInt(notes) & (1n << BigInt(bitPosition))) !== 0n
bitSet(notes, bitPosition) ==
    IF bitPosition <= 30 THEN (notes \div TwoTo(bitPosition)) % 2 = 1
    ELSE ((notes \div TwoTo(30)) \div 2) % 2 = 1

isStepActive(index, notes, tickCount, modeSettings) ==
    JSBool(bitSet(notes, 31 - (tickCount % 32)))

\* extractRowSettings with modeSettings read from four bits.
extractRowSettingsNarrow(settings) ==
    LET firstByte == byteAt(settings, 8)
        secondByte == byteAt(settings, 0)
    IN  [solo |-> (firstByte \div 128) % 2 = 1,
         mute |-> (firstByte \div 64) % 2 = 1,
         midiChannel |-> (firstByte \div 8) % 8,
         note |-> firstByte % 8,
         mode |-> secondByte % 8,
         modeSettings |-> (secondByte \div 8) % 16]

extractRowSettings(settings) ==
    LET firstByte == byteAt(settings, 8)
        secondByte == byteAt(settings, 0)
    IN  [solo |-> (firstByte \div 128) % 2 = 1,
         mute |-> (firstByte \div 64) % 2 = 1,
         midiChannel |-> (firstByte \div 8) % 8,
         note |-> firstByte % 8,
         mode |-> secondByte % 8,
         modeSettings |-> (secondByte \div 8) % 32]

\* generateEuclideanPattern with <= for <.
generateEuclideanPatternOffByOne(n, k) ==
    IF k = 0 THEN [i \in 1..n |-> FALSE]
    ELSE IF k >= n THEN [i \in 1..n |-> TRUE]
    ELSE [i \in 1..n |-> ((i - 1) * k) % n <= k]

\* pattern[i] of the code is element i + 1 of the sequence.
generateEuclideanPattern(n, k) ==
    IF k = 0 THEN [i \in 1..n |-> FALSE]
    ELSE IF k >= n THEN [i \in 1..n |-> TRUE]
    ELSE [i \in 1..n |-> ((i - 1) * k) % n < k]

\* The byte read as a two's complement number.
signedRotationTwosComplement(raw) == IF raw > 127 THEN raw - 256 ELSE raw

\* raw > 127 ? 128 - raw : raw
signedRotation(raw) == IF raw > 127 THEN 128 - raw ELSE raw

\* null, and the cache before anything was put in it.
NoEntry ==
    [isNull |-> TRUE, pattern |-> <<>>, totalSteps |-> 0, pulses |-> 0,
     initialRotation |-> 0, rotationIncrement |-> 0]

\* getEuclideanPattern that takes the entry of the cache when totalSteps and
\* the rotations are those asked for, whatever its pulses.
getEuclideanPatternAnyPulses(cache, index, notes) ==
    LET totalSteps == byteAt(notes, 24)
        pulses == byteAt(notes, 16)
        initialRotation == signedRotation(byteAt(notes, 8))
        rotationIncrement == signedRotation(byteAt(notes, 0))
        effectivePulses == Max(0, Min(totalSteps, pulses))
        cached == cache[index]
    IN  IF totalSteps = 0 THEN [entry |-> NoEntry, cache |-> cache]
        ELSE IF /\ ~cached.isNull
                /\ cached.totalSteps = totalSteps
                /\ cached.initialRotation = initialRotation
                /\ cached.rotationIncrement = rotationIncrement
        THEN [entry |-> cached, cache |-> cache]
        ELSE LET cacheEntry ==
                    [isNull |-> FALSE,
                     pattern |-> generateEuclideanPattern(totalSteps, effectivePulses),
                     totalSteps |-> totalSteps,
                     pulses |-> effectivePulses,
                     initialRotation |-> initialRotation,
                     rotationIncrement |-> rotationIncrement]
             IN  [entry |-> cacheEntry, cache |-> [cache EXCEPT ![index] = cacheEntry]]

\* getEuclideanPattern: the entry it returns and the cache it leaves. cache
\* is euclideanCache, a function from the row index to the entry.
getEuclideanPattern(cache, index, notes) ==
    LET totalSteps == byteAt(notes, 24)
        pulses == byteAt(notes, 16)
        initialRotation == signedRotation(byteAt(notes, 8))
        rotationIncrement == signedRotation(byteAt(notes, 0))
        effectivePulses == Max(0, Min(totalSteps, pulses))
        cached == cache[index]
    IN  IF totalSteps = 0 THEN [entry |-> NoEntry, cache |-> cache]
        ELSE IF /\ ~cached.isNull
                /\ cached.totalSteps = totalSteps
                /\ cached.pulses = effectivePulses
                /\ cached.initialRotation = initialRotation
                /\ cached.rotationIncrement = rotationIncrement
        THEN [entry |-> cached, cache |-> cache]
        ELSE LET cacheEntry ==
                    [isNull |-> FALSE,
                     pattern |-> generateEuclideanPattern(totalSteps, effectivePulses),
                     totalSteps |-> totalSteps,
                     pulses |-> effectivePulses,
                     initialRotation |-> initialRotation,
                     rotationIncrement |-> rotationIncrement]
             IN  [entry |-> cacheEntry, cache |-> [cache EXCEPT ![index] = cacheEntry]]

\* pattern[i]: undefined outside 0..length-1.
patternAt(pattern, i) ==
    IF i >= 0 /\ i < Len(pattern) THEN JSBool(pattern[i + 1]) ELSE "undefined"

\* isStepActiveEuclidean called as a method: what it returns and the cache
\* it leaves.
isStepActiveEuclidean(cache, index, notes, tickCount, modeSettings) ==
    LET g == getEuclideanPattern(cache, index, notes)
    IN  IF g.entry.isNull THEN [result |-> "false", cache |-> g.cache]
        ELSE LET totalSteps == g.entry.totalSteps
                 repeats == tickCount \div totalSteps
                 currentRotation ==
                     g.entry.initialRotation + g.entry.rotationIncrement * repeats
                 mappedIndex == tickCount % totalSteps
                 rotatedIndex ==
                     JSRem(mappedIndex - currentRotation + totalSteps, totalSteps)
             IN  [result |-> patternAt(g.entry.pattern, rotatedIndex),
                  cache |-> g.cache]

\* A SamplePlayer just made and one row in Euclidean mode: the bytes of the
\* row, the tick asked about next, the tick asked about last and the answer.
EuclidRow(modeSettings, steps, pulses, rotation, increment) ==
    << 0, 1 + 8 * modeSettings, steps, pulses, rotation, increment >>

\* index is the row asked about last, entry what getEuclideanPattern returned
\* for it, and hit whether that was the entry of the cache.
NewEuclid ==
    [row |-> EuclidRow(0, 8, 3, 0, 1),
     cache |-> [i \in {1, 2} |-> NoEntry],
     index |-> 1,
     entry |-> NoEntry,
     hit |-> FALSE,
     nextTick |-> 0,
     lastTick |-> 0,
     result |-> "undefined"]

\* The settings of a row before extractRowSettings is called on them.
RowSettingsOf(settings) == [settings |-> settings, extracted |-> FALSE, fields |-> <<>>]
NewRowSettings == RowSettingsOf(0)

(***************************************************************************)
(* The page (src/src/main.js): nine rows, row 0 the SET row, and the       *)
(* SamplePlayer the tick listener hands their values to.                   *)
(***************************************************************************)
numRows == 9

\* The bytes the setter of value gives the rows from defaultValues: the two
\* bytes of settings, (i - 1) << 8 for an instrument row, and the four bytes
\* of notes.
NewRows ==
    << << 120, 0, 0, 0, 0, 0 >>,
       << 0, 0, 136, 136, 136, 128 >>,
       << 1, 0, 0, 0, 0, 8 >>,
       << 2, 0, 0, 128, 0, 128 >>,
       << 3, 0, 0, 0, 0, 1 >>,
       << 4, 0, 128, 0, 128, 0 >>,
       << 5, 0, 0, 128, 0, 128 >>,
       << 6, 0, 128, 2, 136, 32 >>,
       << 7, 0, 0, 0, 0, 0 >> >>

\* getAllRowValues: the entries [index, value] of the Map, row 0 first.
getAllRowValues(rs) ==
    [i \in 1..Len(rs) |-> [index |-> i - 1, value |-> groupValue(rs[i])]]

\* toggleBit(bitPosition) of a switch with value byte: bit 8 - bitPosition.
toggleBit(byte, bitPosition) ==
    IF bitPosition < 1 \/ bitPosition > 8 THEN byte
    ELSE LET w == TwoTo(8 - bitPosition)
         IN  IF (byte \div w) % 2 = 1 THEN byte - w ELSE byte + w

\* applyPresetData that writes the whole SET row, its last three bytes at 0.
applyPresetDataWholeRow(rs, presetData) ==
    [i \in 1..Len(rs) |->
        IF i = 1
        THEN setAllBytes(rs[1], [k \in 1..Len(rs[1]) |->
                                    IF k <= 3 THEN presetData.settingsRowBytes[k]
                                    ELSE 0])
        ELSE setAllBytes(rs[i], presetData.instrumentRowBytes[i - 1])]

\* applyPresetData: the first 3 bytes of the SET row and the 6 bytes of each
\* instrument row.
applyPresetData(rs, presetData) ==
    [i \in 1..Len(rs) |->
        IF i = 1
        THEN setAllBytes(rs[1], [k \in 1..Len(rs[1]) |->
                                    IF k <= 3 THEN presetData.settingsRowBytes[k]
                                    ELSE rs[1][k]])
        ELSE setAllBytes(rs[i], presetData.instrumentRowBytes[i - 1])]

(***************************************************************************)
(* Expert mode of main.js: the selected byte and the clipboard. rowIndex   *)
(* and byteIndex count from 0 as in the source; rs is the bytes of the     *)
(* rows of the page.                                                       *)
(***************************************************************************)
NoSelection == [isNull |-> TRUE, rowIndex |-> 0, byteIndex |-> 0]
NoClipboard == [type |-> "null", value |-> <<>>]

NewEditor ==
    [selectedByte |-> NoSelection,
     clipboard |-> NoClipboard,
     pastes |-> 0,                     \* history: the calls of pasteBytes so far
     before |-> [rows |-> <<>>, selectedByte |-> NoSelection]]
                                       \* history: the page when pasteBytes was called

\* isExpertModeActive: bit 1 of the last byte of the settings row.
isExpertModeActive(rs) == (rs[1][6] \div 2) % 2 = 1

\* setSelectedByte(rowIndex, byteIndex): indices out of range are ignored.
setSelectedByte(e, rs, rowIndex, byteIndex) ==
    IF rowIndex < 0 \/ rowIndex >= Len(rs) \/ byteIndex < 0 \/ byteIndex >= 6 THEN e
    ELSE [e EXCEPT !.selectedByte =
                      [isNull |-> FALSE, rowIndex |-> rowIndex, byteIndex |-> byteIndex]]

\* getSelectedByteType
getSelectedByteType(e) ==
    IF e.selectedByte.isNull THEN "null"
    ELSE IF e.selectedByte.rowIndex = 0 THEN "settingsRow"
    ELSE IF e.selectedByte.byteIndex < 2 THEN "settings" ELSE "notes"

\* The bytes of the selected row: row.getAllBytes().
selectedRowBytes(e, rs) == rs[e.selectedByte.rowIndex + 1]

\* copyByte(byteElement) of the selected byte.
copyByte(e, rs) ==
    [e EXCEPT !.clipboard =
                 [type |-> "byte",
                  value |-> <<selectedRowBytes(e, rs)[e.selectedByte.byteIndex + 1]>>]]

\* copyEntireRow(rowElement) of the selected row.
copyEntireRow(e, rs) ==
    IF e.selectedByte.isNull THEN e
    ELSE [e EXCEPT !.clipboard =
                      [type |-> IF e.selectedByte.rowIndex = 0 THEN "settingsRow"
                                ELSE "instrumentRow",
                       value |-> selectedRowBytes(e, rs)]]

\* copyInstrumentSettings(rowElement) and copyInstrumentNotes(rowElement).
copyInstrumentSettings(e, rs) ==
    [e EXCEPT !.clipboard = [type |-> "instrumentSettings",
                             value |-> SubSeq(selectedRowBytes(e, rs), 1, 2)]]

copyInstrumentNotes(e, rs) ==
    [e EXCEPT !.clipboard = [type |-> "instrumentNotes",
                             value |-> SubSeq(selectedRowBytes(e, rs), 3, 6)]]

\* The hold handler of the key C.
copyHold(e, rs) ==
    IF getSelectedByteType(e) = "settings" THEN copyInstrumentSettings(e, rs)
    ELSE IF getSelectedByteType(e) = "notes" THEN copyInstrumentNotes(e, rs)
    ELSE e

\* isValidClipboardForSelection
isValidClipboardForSelection(e) ==
    IF e.selectedByte.isNull \/ e.clipboard.type = "null" THEN FALSE
    ELSE IF e.clipboard.type = "byte" THEN TRUE
    ELSE IF e.selectedByte.rowIndex = 0 THEN e.clipboard.type = "settingsRow"
    ELSE IF e.clipboard.type = "instrumentRow" THEN TRUE
    ELSE (e.selectedByte.byteIndex < 2) = (e.clipboard.type = "instrumentSettings")

\* pasteBytes with the notes of the clipboard written from byte 1 on.
pasteBytesShifted(e, rs) ==
    IF ~isValidClipboardForSelection(e) THEN rs
    ELSE LET rowIndex == e.selectedByte.rowIndex
             byteIndex == e.selectedByte.byteIndex
             bytes == rs[rowIndex + 1]
             value == e.clipboard.value
             type == e.clipboard.type
             written ==
                 IF type = "byte"
                 THEN [bytes EXCEPT ![byteIndex + 1] = clampByte(value[1])]
                 ELSE IF type = "settingsRow"
                 THEN IF rowIndex = 0 THEN setAllBytes(bytes, value) ELSE bytes
                 ELSE IF type = "instrumentRow"
                 THEN IF rowIndex > 0 THEN setAllBytes(bytes, value) ELSE bytes
                 ELSE IF type = "instrumentSettings"
                 THEN IF rowIndex > 0
                      THEN setAllBytes(bytes, [bytes EXCEPT ![1] = value[1], ![2] = value[2]])
                      ELSE bytes
                 ELSE IF rowIndex > 0
                      THEN setAllBytes(bytes, [bytes EXCEPT ![2] = value[1], ![3] = value[2],
                                                            ![4] = value[3], ![5] = value[4]])
                      ELSE bytes
         IN  [rs EXCEPT ![rowIndex + 1] = written]

\* pasteBytes: the rows after it.
pasteBytes(e, rs) ==
    IF ~isValidClipboardForSelection(e) THEN rs
    ELSE LET rowIndex == e.selectedByte.rowIndex
             byteIndex == e.selectedByte.byteIndex
             bytes == rs[rowIndex + 1]
             value == e.clipboard.value
             type == e.clipboard.type
             written ==
                 IF type = "byte"
                 THEN [bytes EXCEPT ![byteIndex + 1] = clampByte(value[1])]
                 ELSE IF type = "settingsRow"
                 THEN IF rowIndex = 0 THEN setAllBytes(bytes, value) ELSE bytes
                 ELSE IF type = "instrumentRow"
                 THEN IF rowIndex > 0 THEN setAllBytes(bytes, value) ELSE bytes
                 ELSE IF type = "instrumentSettings"
                 THEN IF rowIndex > 0
                      THEN setAllBytes(bytes, [bytes EXCEPT ![1] = value[1], ![2] = value[2]])
                      ELSE bytes
                 ELSE IF rowIndex > 0
                      THEN setAllBytes(bytes, [bytes EXCEPT ![3] = value[1], ![4] = value[2],
                                                            ![5] = value[3], ![6] = value[4]])
                      ELSE bytes
         IN  [rs EXCEPT ![rowIndex + 1] = written]

\* The change listener of the settings row that clears the selection when
\* expert mode is turned off.
clearSelectionIfInactive(e, rs) ==
    IF ~isExpertModeActive(rs) /\ ~e.selectedByte.isNull
    THEN [e EXCEPT !.selectedByte = NoSelection]
    ELSE e

NewPlayer ==
    [euclideanCache |-> [i \in 1..(numRows - 1) |-> NoEntry],
     nextTick |-> 0,
     fired |-> <<>>,
     ran |-> FALSE,
     threw |-> FALSE,
     pending |-> <<>>]        \* the tickCount of each processTick call that has not ended

\* The test of processTick that passes a row over, with the mute alone.
skipsRowMuteOnly(settings, hasAnySolo) == settings.mute

\* settings.mute || (hasAnySolo && !settings.solo)
skipsRow(settings, hasAnySolo) ==
    settings.mute \/ (hasAnySolo /\ ~settings.solo)

\* The second loop of processTick from entry i on. stepCheckers holds the
\* methods without their object, so that isStepActiveEuclidean is called
\* with this undefined and ends by a TypeError at this.getEuclideanPattern;
\* isStepActive does not use this.
RECURSIVE playRows(_, _, _, _, _)
playRows(instrumentRows, i, tickCount, hasAnySolo, fired) ==
    IF i > Len(instrumentRows) THEN [fired |-> fired, threw |-> FALSE]
    ELSE LET index == instrumentRows[i].index
             value == instrumentRows[i].value
             settings == extractRowSettings(value.settings)
         IN  IF skipsRow(settings, hasAnySolo)
             THEN playRows(instrumentRows, i + 1, tickCount, hasAnySolo, fired)
             ELSE IF settings.mode = 0
             THEN playRows(instrumentRows, i + 1, tickCount, hasAnySolo,
                           IF Truthy(isStepActive(index, value.notes, tickCount,
                                                  settings.modeSettings))
                           THEN Append(fired, [index |-> index,
                                               soundBank |-> settings.midiChannel,
                                               note |-> settings.note])
                           ELSE fired)
             ELSE IF settings.mode = 1
             THEN [fired |-> fired, threw |-> TRUE]
             ELSE playRows(instrumentRows, i + 1, tickCount, hasAnySolo, fired)

\* processTick whose hasAnySolo passes over the muted rows.
processTickSoloUnmuted(p, tickCount, rowValues, audio) ==
    IF audio = "stuck" THEN [p EXCEPT !.fired = <<>>, !.ran = FALSE, !.threw = FALSE]
    ELSE LET instrumentRows == SubSeq(rowValues, 2, Len(rowValues))
             hasAnySolo == \E i \in 1..Len(instrumentRows) :
                              LET settings == extractRowSettings(instrumentRows[i].value.settings)
                              IN  settings.solo /\ ~settings.mute
             r == playRows(instrumentRows, 1, tickCount, hasAnySolo, <<>>)
         IN  [p EXCEPT !.fired = r.fired, !.ran = TRUE, !.threw = r.threw]

\* processTick(tickCount, rowValues): the playSample calls it makes. audio
\* is the state of the AudioContext: "running", "suspended" (resume()
\* succeeds) or "stuck" (resume() fails); ran tells that the call went past
\* the resume.
processTick(p, tickCount, rowValues, audio) ==
    IF audio = "stuck" THEN [p EXCEPT !.fired = <<>>, !.ran = FALSE, !.threw = FALSE]
    ELSE LET instrumentRows == SubSeq(rowValues, 2, Len(rowValues))
             hasAnySolo == \E i \in 1..Len(instrumentRows) :
                              extractRowSettings(instrumentRows[i].value.settings).solo
             r == playRows(instrumentRows, 1, tickCount, hasAnySolo, <<>>)
         IN  [p EXCEPT !.fired = r.fired, !.ran = TRUE, !.threw = r.threw]

(***************************************************************************)
(* MidiOutput. activeNotes is the Map in insertion order, each entry with  *)
(* its key (the row index, the channel and the note that make noteKey) and *)
(* its data; sent holds the messages handed to outputPort.send by the last *)
(* processTick, ran tells that this processTick went as far as its loops,  *)
(* and before holds the data of activeNotes when it was called. log holds   *)
(* every message handed to outputPort.send since construction, each with  *)
(* the noteKey on whose behalf it was sent and the tick that sent it.      *)
(***************************************************************************)
SCALE_OFFSETS ==
    << << 0, 1, 2, 3, 4, 5, 6, 7 >>,
       << 0, 2, 4, 5, 7, 9, 11, 12 >>,
       << 0, 2, 3, 5, 7, 8, 10, 12 >>,
       << 0, 2, 4, 7, 9, 12, 14, 16 >> >>

NewMidi ==
    [outputPort |-> FALSE,
     isInitialized |-> FALSE,
     activeNotes |-> <<>>,
     nextTick |-> 0,
     sent |-> <<>>,
     ran |-> FALSE,
     threw |-> FALSE,
     before |-> {},
     log |-> <<>>]

\* ((settingsRowNotes & 0xff) >> 2) & 1 === 1
isMidiEnabled(settingsRowNotes) == (byteAt(settingsRowNotes, 0) \div 4) % 2 = 1

extractScaleSettings(settingsRowNotes) ==
    LET scaleByte == byteAt(settingsRowNotes, 16)
    IN  [noteOffset |-> (scaleByte \div 4) % 64,
         scaleIndex |-> scaleByte % 4]

calculateMidiNote(noteSelect, noteOffset, scaleIndex) ==
    LET scale == SCALE_OFFSETS[(IF scaleIndex < 0 \/ scaleIndex >= Len(SCALE_OFFSETS)
                                THEN 0 ELSE scaleIndex) + 1]
        noteIndex == Max(0, Min(7, noteSelect))
        midiNote == 21 + noteOffset + scale[noteIndex + 1]
    IN  Max(0, Min(127, midiNote))

\* The message of sendNoteOn: [0x90 | (channel & 0x0f), note & 0x7f, velocity & 0x7f].
NoteOnMessage(channel, note, velocity) ==
    << 144 + (channel % 16), note % 128, velocity % 128 >>

\* The message of sendNoteOff: [0x80 | (channel & 0x0f), note & 0x7f, 0].
NoteOffMessage(channel, note) ==
    << 128 + (channel % 16), note % 128, 0 >>

sendNoteOn(m, channel, note, velocity) ==
    IF ~m.outputPort THEN m
    ELSE [m EXCEPT !.sent = Append(@, NoteOnMessage(channel, note, velocity))]

sendNoteOff(m, channel, note) ==
    IF ~m.outputPort THEN m
    ELSE [m EXCEPT !.sent = Append(@, NoteOffMessage(channel, note))]

\* The message that a send has just handed to the port, noted with its key.
logged(m, sentBefore, kind, key) ==
    IF Len(m.sent) = sentBefore THEN m
    ELSE [m EXCEPT !.log = Append(@, [kind |-> kind, key |-> key, tick |-> m.nextTick])]

RECURSIVE sendNoteOffs(_, _, _)
sendNoteOffs(m, entries, i) ==
    IF i > Len(entries) THEN m
    ELSE sendNoteOffs(logged(sendNoteOff(m, entries[i].channel, entries[i].note),
                             Len(m.sent), "off", entries[i].key),
                      entries, i + 1)

\* allNotesOff that clears the Map and sends nothing.
allNotesOffSilent(m) == [m EXCEPT !.activeNotes = <<>>]

\* allNotesOff: a note off for every entry, then the Map is cleared.
allNotesOff(m) ==
    [sendNoteOffs(m, m.activeNotes, 1) EXCEPT !.activeNotes = <<>>]

hasNoteKey(entries, key) == \E k \in 1..Len(entries) : entries[k].key = key

\* The loop of processTick over the instrument rows from entry i on: a note
\* on and an entry of activeNotes for each active row whose noteKey is not
\* in the Map. stepCheckers is that of SamplePlayer: isStepActiveEuclidean
\* is called without its object and ends by a TypeError, and the modes
\* without a checker are passed over.
RECURSIVE midiRows(_, _, _, _, _, _, _)
midiRows(m, instrumentRows, i, tickCount, hasAnySolo, scale, currentlyActive) ==
    IF i > Len(instrumentRows)
    THEN [m |-> m, currentlyActive |-> currentlyActive, threw |-> FALSE]
    ELSE LET index == instrumentRows[i].index
             value == instrumentRows[i].value
             settings == extractRowSettings(value.settings)
             midiNote == calculateMidiNote(settings.note, scale.noteOffset,
                                           scale.scaleIndex)
             noteKey == << index, settings.midiChannel, midiNote >>
         IN  IF skipsRow(settings, hasAnySolo)
             THEN midiRows(m, instrumentRows, i + 1, tickCount, hasAnySolo, scale,
                           currentlyActive)
             ELSE IF settings.mode = 1
             THEN [m |-> m, currentlyActive |-> currentlyActive, threw |-> TRUE]
             ELSE IF settings.mode = 0
                     /\ Truthy(isStepActive(index, value.notes, tickCount,
                                            settings.modeSettings))
             THEN midiRows(IF hasNoteKey(m.activeNotes, noteKey) THEN m
                           ELSE [logged(sendNoteOn(m, settings.midiChannel, midiNote, 127),
                                        Len(m.sent), "on", noteKey)
                                    EXCEPT !.activeNotes =
                                       Append(@, [key |-> noteKey,
                                                  channel |-> settings.midiChannel,
                                                  note |-> midiNote])],
                           instrumentRows, i + 1, tickCount, hasAnySolo, scale,
                           currentlyActive \cup {noteKey})
             ELSE midiRows(m, instrumentRows, i + 1, tickCount, hasAnySolo, scale,
                           currentlyActive)

\* The last loop of processTick that sends the note offs and deletes nothing.
releaseInactiveKeeping(m, currentlyActive) ==
    sendNoteOffs(m, SelectSeq(m.activeNotes, LAMBDA e : e.key \notin currentlyActive), 1)

\* The last loop of processTick: a note off for every entry of activeNotes
\* whose key is not in currentlyActive, and the entry is deleted.
releaseInactive(m, currentlyActive) ==
    LET gone == SelectSeq(m.activeNotes, LAMBDA e : e.key \notin currentlyActive)
    IN  [sendNoteOffs(m, gone, 1) EXCEPT
            !.activeNotes = SelectSeq(m.activeNotes,
                                      LAMBDA e : e.key \in currentlyActive)]

\* initialize(): midiAccess is "unsupported" (no requestMIDIAccess),
\* "denied" (requestMIDIAccess rejects), "empty" (no output) or "output".
initialize(m, midiAccess) ==
    IF m.isInitialized \/ midiAccess # "output" THEN m
    ELSE [m EXCEPT !.outputPort = TRUE, !.isInitialized = TRUE]

\* MidiOutput.processTick(tickCount, rowValues, settingsRowNotes,
\* extractRowSettings, stepCheckers).
midiProcessTick(m0, tickCount, rowValues, settingsRowNotes, midiAccess) ==
    LET m == [m0 EXCEPT !.sent = <<>>, !.ran = FALSE, !.threw = FALSE,
                        !.before = {<< m0.activeNotes[k].channel, m0.activeNotes[k].note >> :
                                      k \in 1..Len(m0.activeNotes)}]
    IN  IF ~isMidiEnabled(settingsRowNotes) THEN allNotesOff(m)
        ELSE LET mi == IF ~m.isInitialized /\ midiAccess # "unsupported"
                       THEN initialize(m, midiAccess) ELSE m
             IN  IF ~m.isInitialized /\ midiAccess # "unsupported" /\ ~mi.isInitialized
                 THEN mi
                 ELSE IF ~mi.outputPort THEN mi
                 ELSE LET scale == extractScaleSettings(settingsRowNotes)
                          instrumentRows == SubSeq(rowValues, 2, Len(rowValues))
                          hasAnySolo ==
                              \E i \in 1..Len(instrumentRows) :
                                 extractRowSettings(instrumentRows[i].value.settings).solo
                          r == midiRows(mi, instrumentRows, 1, tickCount, hasAnySolo,
                                        scale, {})
                      IN  IF r.threw THEN [r.m EXCEPT !.ran = TRUE, !.threw = TRUE]
                          ELSE [releaseInactive(r.m, r.currentlyActive)
                                   EXCEPT !.ran = TRUE]

(***************************************************************************)
(* Actions of the clock.                                                   *)
(***************************************************************************)
Init ==
    /\ clock = NewClock
    /\ now = 0
    /\ app = NewApp
    /\ lastOp = "new"
    /\ calls = <<>>
    /\ stopInEffect = FALSE
    /\ emitted = 0
    /\ sync = NewSync
    /\ lastMsg = NoMsg
    /\ prev = RoleOf(NewSync)
    /\ preset = NewPreset
    /\ euclid = NewEuclid
    /\ rows = NewRows
    /\ player = NewPlayer
    /\ midi = NewMidi
    /\ tempo = NewTempo
    /\ rowSettings = NewRowSettings
    /\ editor = NewEditor
    /\ peer = NewPeer

ClockInit ==
    /\ clock.audioContext = "none"
    /\ \E st \in {"suspended", "running"} : clock' = init(clock, st)
    /\ lastOp' = "init"
    /\ calls' = <<>>
    /\ UNCHANGED <<now, app, stopInEffect, emitted>>
    /\ UNCHANGED outsideClock

OnTick ==
    /\ \E i \in 1..Len(Listeners) : clock' = onTick(clock, Listeners[i])
    /\ clock' # clock
    /\ lastOp' = "onTick"
    /\ calls' = <<>>
    /\ UNCHANGED <<now, app, stopInEffect, emitted>>
    /\ UNCHANGED outsideClock

Start ==
    /\ clock.awaiting < MaxAwaiting
    /\ clock.nextTimerId <= MaxTimerId
    /\ clock' = start(clock, now)
    /\ lastOp' = "start"
    /\ calls' = <<>>
    /\ stopInEffect' = FALSE
    /\ emitted' = IF startCompletes(clock) THEN 0 ELSE emitted
    /\ UNCHANGED <<now, app>>
    /\ UNCHANGED outsideClock

StartResumed ==
    /\ clock.awaiting > 0
    /\ clock.nextTimerId <= MaxTimerId
    /\ clock' = startResumed(clock, now)
    /\ lastOp' = "startResumed"
    /\ calls' = <<>>
    /\ emitted' = 0
    /\ UNCHANGED <<now, app, stopInEffect>>
    /\ UNCHANGED outsideClock

Stop ==
    /\ clock' = stop(clock)
    /\ lastOp' = "stop"
    /\ calls' = <<>>
    /\ stopInEffect' = TRUE
    /\ UNCHANGED <<now, app, emitted>>
    /\ UNCHANGED outsideClock

SetBPM ==
    /\ \E s \in TempoSettings : clock' = setBPM(clock, calculateBPM(s))
    /\ lastOp' = "setBPM"
    /\ calls' = <<>>
    /\ UNCHANGED <<now, app, stopInEffect, emitted>>
    /\ UNCHANGED outsideClock

\* A pending timer whose delay has elapsed fires (late, when now > due).
TimerFire ==
    /\ clock.nextTimerId <= MaxTimerId
    /\ \E x \in clock.timers :
          /\ x.due <= now
          /\ LET c == [clock EXCEPT !.timers = @ \ {x}]
             IN  /\ clock' = timerCallback(c, now)
                 /\ lastOp' = IF c.isRunning THEN "tick" ELSE "timerIdle"
                 /\ \E threw \in SUBSET {c.listeners[i] : i \in 1..Len(c.listeners)} :
                       calls' = IF c.isRunning THEN emitTickCalls(c, threw) ELSE <<>>
                 /\ emitted' = IF c.isRunning THEN emitted + 1 ELSE emitted
    /\ UNCHANGED <<now, app, stopInEffect>>
    /\ UNCHANGED outsideClock

Elapse ==
    /\ now + TimeStep <= MaxNow
    /\ now' = now + TimeStep
    /\ lastOp' = "elapse"
    /\ calls' = <<>>
    /\ UNCHANGED <<clock, app, stopInEffect, emitted>>
    /\ UNCHANGED outsideClock

NextClock ==
    \/ ClockInit
    \/ OnTick
    \/ Start
    \/ StartResumed
    \/ Stop
    \/ SetBPM
    \/ TimerFire
    \/ Elapse

SpecClock == Init /\ [][NextClock]_vars

(***************************************************************************)
(* Actions of the application: the clock is driven by updateClockBPM only. *)
(***************************************************************************)
\* At load: the default control row, then updateClockBPM() (main.js:712).
InitApp ==
    /\ clock = updateClockBPM(NewClock, NewApp, 0)
    /\ now = 0
    /\ app = NewApp
    /\ lastOp = "new"
    /\ calls = <<>>
    /\ stopInEffect = FALSE
    /\ emitted = 0
    /\ sync = NewSync
    /\ lastMsg = NoMsg
    /\ prev = RoleOf(NewSync)
    /\ preset = NewPreset
    /\ euclid = NewEuclid
    /\ rows = NewRows
    /\ player = NewPlayer
    /\ midi = NewMidi
    /\ tempo = NewTempo
    /\ rowSettings = NewRowSettings
    /\ editor = NewEditor
    /\ peer = NewPeer

\* The history after updateClockBPM ran on clock c with control row a.
HistoryOfUpdate(c, a) ==
    /\ calls' = <<>>
    /\ stopInEffect' = IF updateClockBPMStop(c, a) THEN TRUE
                       ELSE IF updateClockBPMStart(c, a) THEN FALSE
                       ELSE stopInEffect
    /\ emitted' = IF updateClockBPMStart(c, a) /\ startCompletes(c) THEN 0
                  ELSE emitted

\* The first user interaction: startSequencer begins, awaiting clock.init().
Interact ==
    /\ app.phase = "idle"
    /\ app' = [app EXCEPT !.phase = "init"]
    /\ lastOp' = "interact"
    /\ calls' = <<>>
    /\ UNCHANGED <<clock, now, stopInEffect, emitted>>
    /\ UNCHANGED outsideClock

\* initializeSequencer after clock.init(): samplePlayer is set, the samples load.
InitDone ==
    /\ app.phase = "init"
    /\ app' = [app EXCEPT !.phase = "loading"]
    /\ \E st \in {"suspended", "running"} : clock' = init(clock, st)
    /\ lastOp' = "initDone"
    /\ calls' = <<>>
    /\ UNCHANGED <<now, stopInEffect, emitted>>
    /\ UNCHANGED outsideClock

\* The samples are loaded: the tick listener is registered, startSequencer
\* calls updateClockBPM().
LoadDone ==
    /\ app.phase = "loading"
    /\ clock.awaiting < MaxAwaiting
    /\ clock.nextTimerId <= MaxTimerId
    /\ app' = [app EXCEPT !.phase = "ready"]
    /\ LET c == onTick(clock, Listeners[1])
       IN  /\ clock' = updateClockBPM(c, app', now)
           /\ HistoryOfUpdate(c, app')
    /\ lastOp' = "loadDone"
    /\ UNCHANGED now
    /\ UNCHANGED outsideClock

\* A change event of the control row: its switches hold s and play bit p.
SetRowChange ==
    /\ clock.awaiting < MaxAwaiting
    /\ clock.nextTimerId <= MaxTimerId
    /\ \E s \in TempoSettings, p \in {0, 1} :
          app' = [app EXCEPT !.settings = s, !.playBit = p]
    /\ clock' = updateClockBPM(clock, app', now)
    /\ HistoryOfUpdate(clock, app')
    /\ lastOp' = "change"
    /\ UNCHANGED now
    /\ UNCHANGED outsideClock

NextApp ==
    \/ Interact
    \/ InitDone
    \/ LoadDone
    \/ SetRowChange
    \/ StartResumed
    \/ TimerFire
    \/ Elapse

SpecApp == InitApp /\ [][NextApp]_vars

(***************************************************************************)
(* Actions of one CrossTabSync tab: its own calls, its two intervals and   *)
(* the messages of the other tabs.                                         *)
(***************************************************************************)
\* The object as a handler finds it: the logs of the last handler cleared.
Fresh(s) == [s EXCEPT !.cbLog = <<>>, !.posted = <<>>, !.threw = FALSE]

PeerMessages ==
    {[type |-> "tick", data |-> [tabId |-> p, time |-> tm, tickCount |-> n, settings |-> st]] :
        p \in Peers, tm \in TickTimes, n \in TickCounts, st \in LeaderSettings}
    \cup {[type |-> "leader-announce",
           data |-> [tabId |-> p, bpm |-> LeaderArgs(st).bpm,
                     maxBPM |-> LeaderArgs(st).maxBPM, settings |-> st]] :
        p \in Peers, st \in LeaderSettings}
    \cup {[type |-> "leader-stop", data |-> [tabId |-> p]] : p \in Peers}

InitSync == Init

Receive ==
    /\ sync.channelOpen
    /\ \E msg \in PeerMessages :
          /\ sync' = handleMessage(Fresh(sync), msg, now)
          /\ lastMsg' = msg
    /\ prev' = RoleOf(sync)
    /\ lastOp' = "receive"
    /\ UNCHANGED now
    /\ UNCHANGED outsideSync

StartLeader ==
    /\ \E st \in LeaderSettings : sync' = startLeader(Fresh(sync), LeaderArgs(st))
    /\ lastOp' = "startLeader"
    /\ lastMsg' = NoMsg
    /\ prev' = RoleOf(sync)
    /\ UNCHANGED now
    /\ UNCHANGED outsideSync

StopLeader ==
    /\ sync' = stopLeader(Fresh(sync))
    /\ lastOp' = "stopLeader"
    /\ lastMsg' = NoMsg
    /\ prev' = RoleOf(sync)
    /\ UNCHANGED now
    /\ UNCHANGED outsideSync

StartFollower ==
    /\ sync' = startFollower(Fresh(sync), now)
    /\ lastOp' = "startFollower"
    /\ lastMsg' = NoMsg
    /\ prev' = RoleOf(sync)
    /\ UNCHANGED now
    /\ UNCHANGED outsideSync

StopFollower ==
    /\ sync' = stopFollower(Fresh(sync))
    /\ lastOp' = "stopFollower"
    /\ lastMsg' = NoMsg
    /\ prev' = RoleOf(sync)
    /\ UNCHANGED now
    /\ UNCHANGED outsideSync

Destroy ==
    /\ sync' = destroy(Fresh(sync))
    /\ lastOp' = "destroy"
    /\ lastMsg' = NoMsg
    /\ prev' = RoleOf(sync)
    /\ UNCHANGED now
    /\ UNCHANGED outsideSync

BroadcastTick ==
    /\ \E tm \in TickTimes, n \in TickCounts, st \in LeaderSettings :
          sync' = broadcastTick(Fresh(sync), tm, n, st)
    /\ lastOp' = "broadcastTick"
    /\ lastMsg' = NoMsg
    /\ prev' = RoleOf(sync)
    /\ UNCHANGED now
    /\ UNCHANGED outsideSync

\* The 1500 ms interval of startLeader fires.
AnnounceInterval ==
    /\ sync.leaderAnnounceInterval
    /\ sync' = announceInterval(Fresh(sync))
    /\ lastOp' = "announceInterval"
    /\ lastMsg' = NoMsg
    /\ prev' = RoleOf(sync)
    /\ UNCHANGED now
    /\ UNCHANGED outsideSync

\* The 1000 ms interval of startFollower fires.
Sweep ==
    /\ sync.leaderTimeout
    /\ sync' = sweep(Fresh(sync), now)
    /\ lastOp' = "sweep"
    /\ lastMsg' = NoMsg
    /\ prev' = RoleOf(sync)
    /\ UNCHANGED now
    /\ UNCHANGED outsideSync

SyncElapse ==
    /\ now + SyncTimeStep <= SyncMaxNow
    /\ now' = now + SyncTimeStep
    /\ sync' = Fresh(sync)
    /\ lastOp' = "elapse"
    /\ lastMsg' = NoMsg
    /\ prev' = RoleOf(sync)
    /\ UNCHANGED outsideSync

NextSync ==
    \/ Receive
    \/ StartLeader
    \/ StopLeader
    \/ StartFollower
    \/ StopFollower
    \/ Destroy
    \/ BroadcastTick
    \/ AnnounceInterval
    \/ Sweep
    \/ SyncElapse

SpecSync == InitSync /\ [][NextSync]_vars

(***************************************************************************)
(* Claims about the clock.                                                 *)
(***************************************************************************)

\* C1: stop() cancels ticking at once: after stop() returned and until
\* start() is called again, no timer callback invokes a listener; and stop()
\* on a stopped clock changes nothing.
C1_StopCancelsTicking ==
    /\ ~(stopInEffect /\ lastOp = "tick" /\ calls # <<>>)
    /\ (~clock.isRunning => stop(clock) = clock)

\* C2: a start() that succeeds sets tickCount to 0; the k-th tick emitted
\* after it passes tickCount = k to every listener and then adds exactly one
\* to tickCount; tickCount never decreases while the clock is running.
C2_TickCountCounts ==
    [][/\ (lastOp' = "startResumed" \/ (lastOp' = "start" /\ startCompletes(clock))
            => clock'.tickCount = 0)
       /\ (lastOp' = "tick"
            => /\ \A i \in 1..Len(calls') : calls'[i].tickCount = emitted
               /\ Len(calls') = Len(clock.listeners)
               /\ clock'.tickCount = clock.tickCount + 1)
       /\ (clock.isRunning /\ clock'.isRunning
            => clock'.tickCount >= clock.tickCount)]_vars

\* C3: whichever listeners throw during a tick, every subscribed listener is
\* called for that tick with the tick's tickCount, tickCount is incremented
\* and the next tick is scheduled.
C3_ListenerIsolation ==
    [][lastOp' = "tick"
       => /\ Len(calls') = Len(clock.listeners)
          /\ \A i \in 1..Len(calls') :
                /\ calls'[i].listener = clock.listeners[i]
                /\ calls'[i].tickCount = clock.tickCount
          /\ clock'.tickCount = clock.tickCount + 1
          /\ clock'.timeoutId = clock.nextTimerId
          /\ \E x \in clock'.timers : x.id = clock'.timeoutId]_vars

\* C3, its case: the first listener threw, the second was called all the same
\* and the next timer is pending.
C3_Witness ==
    /\ lastOp = "tick"
    /\ Len(calls) = 2
    /\ calls[1].threw
    /\ \E x \in clock.timers : x.id = clock.timeoutId

\* C4: with BPM <= 0 the clock does not schedule: start() leaves a stopped
\* clock as it is, and no tick is emitted while currentBPM <= 0.
C4_NoTickAtZeroBPM ==
    /\ (clock.currentBPM <= 0 /\ ~clock.isRunning => start(clock, now) = clock)
    /\ ~(lastOp = "tick" /\ clock.currentBPM <= 0)

\* C5: under updateClockBPM the transport runs only while the play bit is 1
\* and the BPM is > 0: no tick is dispatched otherwise, and once no start()
\* is pending the clock is stopped whenever the play bit is 0 or the BPM is 0.
C5_TransportFollowsPlayBit ==
    /\ (lastOp = "tick" => canPlay(app))
    /\ (clock.awaiting = 0 /\ ~canPlay(app) => ~clock.isRunning)

(***************************************************************************)
(* Claims about CrossTabSync.                                              *)
(***************************************************************************)
Expired(e, t) == t - e.lastSeen > LeaderExpiryMs

\* C6: the roles are exclusive: isLeader and isFollower are never both true,
\* a leader has stopped following (no leader selected, no callback, no sweep
\* interval) and a follower has stepped down (no announce interval).
C6_RolesExclusive ==
    /\ ~(sync.isLeader /\ sync.isFollower)
    /\ (sync.isLeader
         => sync.currentLeaderId = Null /\ ~sync.tickCallback /\ ~sync.leaderTimeout)
    /\ (sync.isFollower => ~sync.leaderAnnounceInterval)

\* C6, its case: a follower with a leader called startLeader and leads.
C6_Witness ==
    /\ lastOp = "startLeader"
    /\ prev.isFollower
    /\ prev.currentLeaderId # Null
    /\ sync.isLeader
    /\ sync.leaderAnnounceInterval

\* C7: a sweep of a follower whose leader was last seen more than 3000 ms
\* ago, and that knows no peer seen since, sets currentLeaderId to null; and
\* with currentLeaderId null no tick is forwarded to the callback.
C7_LeaderTimeout ==
    [][LET allExpired == \A i \in 1..Len(sync.availableLeaders) :
                            Expired(sync.availableLeaders[i], now)
           leaderTimedOut == /\ sync.isFollower
                             /\ sync.currentLeaderId # Null
                             /\ mapHas(sync.availableLeaders, sync.currentLeaderId)
                             /\ allExpired
           tickWithoutLeader == /\ lastOp' = "receive"
                                /\ lastMsg'.type = "tick"
                                /\ sync.currentLeaderId = Null
       IN  /\ (lastOp' = "sweep" /\ leaderTimedOut
                => sync'.currentLeaderId = Null /\ sync'.cbLog = <<>>)
           /\ (tickWithoutLeader => sync'.cbLog = <<>>)]_vars

\* C7, its case: a sweep took the leader of a follower away.
C7_Witness ==
    /\ lastOp = "sweep"
    /\ prev.isFollower
    /\ prev.currentLeaderId # Null
    /\ sync.isFollower
    /\ sync.currentLeaderId = Null

\* C8: a follower without a leader that handles a leader-announce of peer P
\* records P, sets currentLeaderId to P and calls its callback exactly once,
\* with a null time, tickCount 0 and the announced settings.
C8_AdoptOnAnnounce ==
    [][lastOp' = "receive" /\ lastMsg'.type = "leader-announce"
         /\ sync.isFollower /\ sync.currentLeaderId = Null
       => LET d == lastMsg'.data
          IN  /\ mapHas(sync'.availableLeaders, d.tabId)
              /\ mapGet(sync'.availableLeaders, d.tabId).settings = d.settings
              /\ mapGet(sync'.availableLeaders, d.tabId).lastSeen = now
              /\ sync'.currentLeaderId = d.tabId
              /\ sync'.cbLog = <<[time |-> None, tickCount |-> 0,
                                  settings |-> d.settings]>>]_vars

\* C8, its case: a follower without a leader adopted the announcing peer.
C8_Witness ==
    /\ lastOp = "receive"
    /\ lastMsg.type = "leader-announce"
    /\ prev.isFollower
    /\ prev.currentLeaderId = Null
    /\ sync.currentLeaderId = lastMsg.data.tabId
    /\ Len(sync.cbLog) = 1

\* C9: the callback is called with a time that is not null (a forwarded tick)
\* only by the handling of a tick message whose sender is the current leader
\* of a follower, and then once, with the time, tickCount and settings of
\* the message.
C9_TicksFromLeaderOnly ==
    [][(\E i \in 1..Len(sync'.cbLog) : sync'.cbLog[i].time # None)
       => /\ lastOp' = "receive"
          /\ lastMsg'.type = "tick"
          /\ sync.isFollower
          /\ lastMsg'.data.tabId = sync.currentLeaderId
          /\ sync'.cbLog = <<[time |-> lastMsg'.data.time,
                              tickCount |-> lastMsg'.data.tickCount,
                              settings |-> lastMsg'.data.settings]>>]_vars

\* C9, its case: a follower that knows two peers forwarded the tick of its
\* leader.
C9_Witness ==
    /\ lastOp = "receive"
    /\ lastMsg.type = "tick"
    /\ Len(sync.availableLeaders) = 2
    /\ sync.currentLeaderId = lastMsg.data.tabId
    /\ Len(sync.cbLog) = 1
    /\ sync.cbLog[1].time # None

\* C10: when the current leader of a follower is evicted, by its leader-stop
\* or by the sweep, the new leader is a remaining peer seen within 3000 ms
\* and the callback is called with a null time and its settings; when no
\* such peer remains, currentLeaderId becomes null.
C10_ResyncOnReelection ==
    [][LET cur == sync.currentLeaderId
           byStop == /\ lastOp' = "receive"
                     /\ lastMsg'.type = "leader-stop"
                     /\ lastMsg'.data.tabId = cur
           bySweep == /\ lastOp' = "sweep"
                      /\ mapHas(sync.availableLeaders, cur)
                      /\ Expired(mapGet(sync.availableLeaders, cur), now)
           remaining == {i \in 1..Len(sync.availableLeaders) :
                           /\ sync.availableLeaders[i].tabId # cur
                           /\ ~Expired(sync.availableLeaders[i], now)}
       IN  sync.isFollower /\ cur # Null /\ (byStop \/ bySweep)
           => IF remaining = {}
              THEN sync'.currentLeaderId = Null
              ELSE /\ \E i \in remaining :
                        sync'.currentLeaderId = sync.availableLeaders[i].tabId
                   /\ \E k \in 1..Len(sync'.cbLog) :
                        sync'.cbLog[k] =
                            [time |-> None, tickCount |-> 0,
                             settings |-> mapGet(sync'.availableLeaders,
                                                 sync'.currentLeaderId).settings]]_vars

\* The leader-stop a tab posts when it steps down.
LeaderStopMsg == [type |-> "leader-stop", data |-> [tabId |-> SelfId]]

\* C11: a leader that steps down by stopLeader or by startFollower posts
\* exactly one leader-stop with its tabId and is no longer leader; a tab that
\* is not leader after a step has posted no leader-announce and no tick in
\* it, and has no announce interval left.
C11_StepDownAnnouncesOnce ==
    [][/\ (sync.isLeader /\ lastOp' \in {"stopLeader", "startFollower"}
            => /\ ~sync'.isLeader
               /\ sync'.posted = <<LeaderStopMsg>>)
       /\ (~sync'.isLeader
            => /\ \A i \in 1..Len(sync'.posted) :
                    sync'.posted[i].type \notin {"leader-announce", "tick"}
               /\ ~sync'.leaderAnnounceInterval)]_vars

\* C12: destroy() steps down (posting the leader-stop of a leader) and stops
\* following before it closes the channel; once the channel is closed no
\* call, timer or message posts anything or calls the callback, and the tab
\* holds no role and no timer.
C12_NothingAfterDestroy ==
    [][/\ (lastOp' = "destroy" /\ sync.channelOpen
            => /\ ~sync'.channelOpen
               /\ (sync.isLeader => sync'.posted = <<LeaderStopMsg>>))
       /\ (~sync'.channelOpen
            => /\ ~sync'.isLeader /\ ~sync'.isFollower
               /\ ~sync'.leaderAnnounceInterval /\ ~sync'.leaderTimeout
               /\ sync'.cbLog = <<>>
               /\ (~sync.channelOpen => sync'.posted = <<>>))]_vars

(***************************************************************************)
(* The preset codec at work: the rows are edited, encodePreset makes the   *)
(* token, the token is stored and may come back changed, decodePreset      *)
(* reads it.                                                               *)
(***************************************************************************)
MaxPresetEdits == 2   \* changes of the rows and of the token in one behaviour

\* The bytes the edits write (0xFB and 0xFF make the characters "+" and "/"
\* of btoa), the rows (0 is the settings row) and the bytes they touch.
ByteValues == {0, 251, 255}
EditRows == {0, 8}
EditIndexes == {1, 2, 6}
Resizes == {"dropSettingsByte", "addSettingsByte", "dropRow", "addRow",
            "dropRowByte", "addRowByte"}
TokenEdits == {"dropLast", "appendA", "appendPad", "appendStar", "prependSpaces",
               "empty", "notAString", "default"}

dropLast(q) == SubSeq(q, 1, Len(q) - 1)

resize(p, change) ==
    IF change = "dropSettingsByte"
    THEN [p EXCEPT !.settingsRowBytes = dropLast(@)]
    ELSE IF change = "addSettingsByte"
    THEN [p EXCEPT !.settingsRowBytes = Append(@, 0)]
    ELSE IF change = "dropRow"
    THEN [p EXCEPT !.instrumentRowBytes = dropLast(@)]
    ELSE IF change = "addRow"
    THEN [p EXCEPT !.instrumentRowBytes = Append(@, <<0, 0, 0, 0, 0, 0>>)]
    ELSE IF change = "dropRowByte"
    THEN [p EXCEPT !.instrumentRowBytes[1] = dropLast(@)]
    ELSE [p EXCEPT !.instrumentRowBytes[1] = Append(@, 0)]

editToken(tok, e) ==
    IF e = "dropLast" THEN StringToken(dropLast(tok.chars))
    ELSE IF e = "appendA" THEN StringToken(Append(tok.chars, "A"))
    ELSE IF e = "appendPad" THEN StringToken(Append(tok.chars, "="))
    ELSE IF e = "appendStar" THEN StringToken(Append(tok.chars, "*"))
    ELSE IF e = "prependSpaces" THEN StringToken(<<" ", " ", " ", " ">> \o tok.chars)
    ELSE IF e = "empty" THEN StringToken(<<>>)
    ELSE IF e = "notAString" THEN NotAString
    ELSE StringToken(DEFAULT_PRESET)

PresetSetByte ==
    /\ preset.edits < MaxPresetEdits
    /\ \E r \in EditRows, i \in EditIndexes, v \in ByteValues :
          IF r = 0
          THEN /\ i <= Len(preset.settingsRowBytes)
               /\ preset' = [preset EXCEPT !.settingsRowBytes[i] = v,
                                           !.encoded = EncodeFailed,
                                           !.decoded = DecodeFailed,
                                           !.edits = @ + 1]
          ELSE /\ r <= Len(preset.instrumentRowBytes)
               /\ i <= Len(preset.instrumentRowBytes[r])
               /\ preset' = [preset EXCEPT !.instrumentRowBytes[r][i] = v,
                                           !.encoded = EncodeFailed,
                                           !.decoded = DecodeFailed,
                                           !.edits = @ + 1]
    /\ lastOp' = "presetSetByte"
    /\ UNCHANGED outsidePreset

PresetResize ==
    /\ preset.edits < MaxPresetEdits
    /\ \E change \in Resizes :
          /\ change = "dropSettingsByte" => Len(preset.settingsRowBytes) > 0
          /\ change = "dropRow" => Len(preset.instrumentRowBytes) > 1
          /\ change = "dropRowByte" => Len(preset.instrumentRowBytes[1]) > 0
          /\ preset' = [resize(preset, change) EXCEPT !.encoded = EncodeFailed,
                                                      !.decoded = DecodeFailed,
                                                      !.edits = @ + 1]
    /\ lastOp' = "presetResize"
    /\ UNCHANGED outsidePreset

\* savePreset: the token of the rows is made and stored.
PresetEncode ==
    /\ LET e == encodePreset(preset.settingsRowBytes, preset.instrumentRowBytes)
       IN  preset' = [preset EXCEPT !.encoded = e,
                                    !.token = IF e.ok THEN StringToken(e.token) ELSE @,
                                    !.decoded = DecodeFailed]
    /\ lastOp' = "encodePreset"
    /\ UNCHANGED outsidePreset

\* The stored token is not what encodePreset made (a hand-written URL, an
\* edited localStorage entry, a line of presets.txt).
PresetTokenEdit ==
    /\ preset.edits < MaxPresetEdits
    /\ \E e \in TokenEdits :
          /\ e = "dropLast" => preset.token.isString /\ Len(preset.token.chars) > 0
          /\ preset' = [preset EXCEPT !.token = editToken(@, e),
                                      !.decoded = DecodeFailed,
                                      !.edits = @ + 1]
    /\ lastOp' = "tokenEdit"
    /\ UNCHANGED outsidePreset

\* getPreset: the stored token is decoded.
PresetDecode ==
    /\ preset' = [preset EXCEPT !.decoded = decodePreset(preset.token)]
    /\ lastOp' = "decodePreset"
    /\ UNCHANGED outsidePreset

NextPreset ==
    \/ PresetSetByte
    \/ PresetResize
    \/ PresetEncode
    \/ PresetTokenEdit
    \/ PresetDecode

SpecPreset == Init /\ [][NextPreset]_vars

\* The rows encodePreset accepts, and the first three bytes of a sequence.
WellFormedRows(p) ==
    /\ Len(p.settingsRowBytes) >= PresetSettingsBytes
    /\ Len(p.instrumentRowBytes) = PresetRows
    /\ \A row \in 1..Len(p.instrumentRowBytes) :
          Len(p.instrumentRowBytes[row]) = PresetRowBytes

\* C13: for rows of the right arity, decodePreset of the token encodePreset
\* makes returns the first 3 settings bytes and the 8 rows of 6 bytes, the
\* same bytes in the same order.
C13_PresetRoundTrip ==
    WellFormedRows(preset)
    => LET e == encodePreset(preset.settingsRowBytes, preset.instrumentRowBytes)
       IN  /\ e.ok
           /\ decodePreset(StringToken(e.token))
                = [ok |-> TRUE,
                   settingsRowBytes |-> SubSeq(preset.settingsRowBytes, 1, 3),
                   instrumentRowBytes |-> preset.instrumentRowBytes]

\* C13, its case: rows that were edited were encoded to a token with a "-"
\* or a "_" in it, and the token was decoded to the same rows.
C13_Witness ==
    /\ lastOp = "decodePreset"
    /\ preset.edits > 0
    /\ preset.encoded.ok
    /\ preset.token = StringToken(preset.encoded.token)
    /\ \E i \in 1..Len(preset.token.chars) : preset.token.chars[i] \in {"-", "_"}
    /\ preset.decoded.ok
    /\ preset.decoded.instrumentRowBytes = preset.instrumentRowBytes

\* The number of bytes the characters of a token stand for: 6 bits each,
\* white space and the padding at the end not counted.
DecodedLength(chars) ==
    (Len(stripPadding(SelectSeq(chars, LAMBDA c : c # " "))) * 6) \div 8

\* C14: decodePreset returns a result only for a non-empty string that
\* stands for exactly 51 bytes, and the result is those 51 bytes (3 and 8
\* times 6), none added and none dropped; encodePreset fails when the
\* settings row has fewer than 3 bytes, when there are not 8 instrument rows
\* or when a row has not 6 bytes.
C14_MalformedPresetFails ==
    /\ LET d == decodePreset(preset.token)
       IN  d.ok => /\ preset.token.isString
                   /\ preset.token.chars # <<>>
                   /\ DecodedLength(preset.token.chars) = PresetLength
                   /\ Len(d.settingsRowBytes) = PresetSettingsBytes
                   /\ Len(d.instrumentRowBytes) = PresetRows
                   /\ \A row \in 1..PresetRows :
                         Len(d.instrumentRowBytes[row]) = PresetRowBytes
                   /\ btoa(d.settingsRowBytes \o flatten(d.instrumentRowBytes))
                        = fromBase64URL(SelectSeq(preset.token.chars,
                                                  LAMBDA c : c # " "))
    /\ ~WellFormedRows(preset)
         => ~encodePreset(preset.settingsRowBytes, preset.instrumentRowBytes).ok

\* C14, its case: a token one character short was decoded and refused.
C14_Witness ==
    /\ lastOp = "decodePreset"
    /\ preset.token.isString
    /\ Len(preset.token.chars) = 67
    /\ ~preset.decoded.ok

(***************************************************************************)
(* The Euclidean step checker asked tick after tick about one row.         *)
(***************************************************************************)
MaxSteps == 8         \* the steps of a cycle the rows are given
MaxEuclidTick == 16   \* the last tick asked about

\* The bytes of rotation and of increment (255 is -127, 129 is -1) and the
\* modeSettings (17: Nth step, skip, N = 2; 25: Nth step, play, N = 2).
RotationBytes == {0, 1, 5, 255}
IncrementBytes == {0, 1, 129}
ModeSettingsValues == {0, 17, 25}

InitEuclid ==
    /\ clock = NewClock
    /\ now = 0
    /\ app = NewApp
    /\ lastOp = "new"
    /\ calls = <<>>
    /\ stopInEffect = FALSE
    /\ emitted = 0
    /\ sync = NewSync
    /\ lastMsg = NoMsg
    /\ prev = RoleOf(NewSync)
    /\ preset = NewPreset
    /\ rows = NewRows
    /\ player = NewPlayer
    /\ midi = NewMidi
    /\ tempo = NewTempo
    /\ rowSettings = NewRowSettings
    /\ editor = NewEditor
    /\ peer = NewPeer
    /\ \E ms \in ModeSettingsValues, steps \in 0..MaxSteps,
          rotation \in RotationBytes, increment \in IncrementBytes :
          \E pulses \in 0..(steps + 1) :
             euclid = [NewEuclid EXCEPT
                          !.row = EuclidRow(ms, steps, pulses, rotation, increment)]

\* The tick listener: the value of the row is read and the step checker of
\* its mode is asked about the tick.
EuclidTick ==
    /\ euclid.nextTick <= MaxEuclidTick
    /\ LET value == groupValue(euclid.row)
           settings == extractRowSettings(value.settings)
           r == isStepActiveEuclidean(euclid.cache, 1, value.notes, euclid.nextTick,
                                      settings.modeSettings)
       IN  euclid' = [euclid EXCEPT !.cache = r.cache,
                                    !.entry = getEuclideanPattern(euclid.cache, 1,
                                                                  value.notes).entry,
                                    !.hit = (~euclid.cache[1].isNull
                                             /\ r.cache = euclid.cache),
                                    !.result = r.result,
                                    !.lastTick = euclid.nextTick,
                                    !.nextTick = @ + 1]
    /\ lastOp' = "euclidTick"
    /\ UNCHANGED outsideEuclid

NextEuclid == EuclidTick

SpecEuclid == InitEuclid /\ [][NextEuclid]_vars

\* The parameter block of the row, as the claims name it.
StepsPerCycle == euclid.row[3]
PulsesPerCycle == Min(euclid.row[3], euclid.row[4])
InitialRotation == signedRotation(euclid.row[5])
RotationIncrement == signedRotation(euclid.row[6])
ModeSettingsOfRow == (euclid.row[2] \div 8) % 32

\* C16: for steps > 0 and pulses in 0..steps the pattern has steps entries,
\* pulses of them true, entry i true iff (i * pulses) mod steps < pulses, and
\* entry 0 true when pulses > 0.
C16_EuclideanPattern ==
    LET steps == euclid.row[3]
        pulses == euclid.row[4]
        pattern == generateEuclideanPattern(steps, pulses)
    IN  steps > 0 /\ pulses <= steps
        => /\ Len(pattern) = steps
           /\ Cardinality({i \in 1..steps : pattern[i]}) = pulses
           /\ \A i \in 0..(steps - 1) :
                 pattern[i + 1] <=> ((i * pulses) % steps < pulses)
           /\ pulses > 0 => pattern[1]

\* C16, its case: 8 steps and 3 pulses make x..x..x. in the cache.
C16_Witness ==
    /\ lastOp = "euclidTick"
    /\ ~euclid.cache[1].isNull
    /\ euclid.cache[1].pattern
         = << TRUE, FALSE, FALSE, TRUE, FALSE, FALSE, TRUE, FALSE >>

\* The step of the pattern the claims look up at tick t: its index is
\* (t + steps - rotation) mod steps, the rotation taken mod steps.
RotationAt(t) ==
    (InitialRotation + RotationIncrement * (t \div StepsPerCycle)) % StepsPerCycle
ExpectedActive(t) ==
    generateEuclideanPattern(StepsPerCycle, PulsesPerCycle)
        [((t + StepsPerCycle - RotationAt(t)) % StepsPerCycle) + 1]

\* C17: with stepsPerCycle > 0, isStepActiveEuclidean at tick t returns the
\* entry (t + steps - rotation) mod steps of the pattern, rotation being
\* (initialRotation + rotationIncrement * floor(t / steps)) mod steps, not
\* negative.
C17_EuclideanRotation ==
    lastOp = "euclidTick" /\ StepsPerCycle > 0
    => (Truthy(euclid.result) <=> ExpectedActive(euclid.lastTick))

\* The active steps counted up to tick t: pulses for each cycle that ended,
\* and the active steps of the cycle of t up to t.
CumulativeActiveCount(t) ==
    (t \div StepsPerCycle) * PulsesPerCycle
    + Cardinality({u \in (t - (t % StepsPerCycle))..t : ExpectedActive(u)})

\* C18: in Euclidean mode with bit 4 of modeSettings set and N = the low 3
\* bits + 1, a tick fires only if its step is active and (count mod N = 0)
\* equals bit 3; with bit 4 clear every active step fires and no other.
C18_NthStepModifier ==
    lastOp = "euclidTick" /\ StepsPerCycle > 0
    => LET ms == ModeSettingsOfRow
           n == (ms % 8) + 1
           t == euclid.lastTick
       IN  IF (ms \div 16) % 2 = 1
           THEN Truthy(euclid.result)
                => /\ ExpectedActive(t)
                   /\ (CumulativeActiveCount(t) % n = 0) <=> ((ms \div 8) % 2 = 1)
           ELSE Truthy(euclid.result) <=> ExpectedActive(t)

(***************************************************************************)
(* The page at work: switches are toggled, bytes are written, a preset is  *)
(* loaded, and the tick listener hands the row values to processTick.      *)
(***************************************************************************)
MaxPlayerTick == 1    \* the last tick of the clock

\* The rows that are edited, the switches [byte, bitPosition] toggled (solo,
\* mute, bit 0 of the mode, the first step, which is the top bit of notes),
\* and the values written to the first notes byte of a row.
EditedRows == {1, 2}
ToggledSwitches == {<<1, 1>>, <<1, 2>>, <<2, 8>>, <<3, 1>>}
WrittenValues == {-1, 256}
AudioStates == {"running", "suspended", "stuck"}

\* A click on a switch: toggleBit.
RowToggleBit ==
    /\ \E r \in EditedRows, sw \in ToggledSwitches :
          rows' = [rows EXCEPT ![r + 1][sw[1]] = toggleBit(@, sw[2])]
    /\ player' = [player EXCEPT !.fired = <<>>, !.ran = FALSE, !.threw = FALSE]
    /\ lastOp' = "toggleBit"
    /\ UNCHANGED outsidePlayer

\* Expert mode writes a byte: the setter of value clamps it.
RowSetByte ==
    /\ \E v \in WrittenValues :
          rows' = [rows EXCEPT ![3][3] = clampByte(v)]
    /\ player' = [player EXCEPT !.fired = <<>>, !.ran = FALSE, !.threw = FALSE]
    /\ lastOp' = "setByte"
    /\ UNCHANGED outsidePlayer

\* A preset is loaded: applyPresetData with the data of DEFAULT_PRESET.
RowLoadPreset ==
    /\ rows' = applyPresetData(rows, decodePreset(StringToken(DEFAULT_PRESET)))
    /\ player' = [player EXCEPT !.fired = <<>>, !.ran = FALSE, !.threw = FALSE]
    /\ lastOp' = "loadPreset"
    /\ UNCHANGED outsidePlayer

\* The tick listener of initializeSequencer.
PlayerTick ==
    /\ player.nextTick <= MaxPlayerTick
    /\ \E audio \in AudioStates :
          player' = [processTick(player, player.nextTick, getAllRowValues(rows), audio)
                        EXCEPT !.nextTick = @ + 1]
    /\ lastOp' = "playerTick"
    /\ UNCHANGED rows
    /\ UNCHANGED outsidePlayer

NextPlayer ==
    \/ RowToggleBit
    \/ RowSetByte
    \/ RowLoadPreset
    \/ PlayerTick

SpecPlayer == Init /\ [][NextPlayer]_vars

\* The solo and mute switches of instrument row i, and its step at tick t in
\* step mode, read from its bytes.
SoloOf(i) == rows[i + 1][1] >= 128
MuteOf(i) == (rows[i + 1][1] \div 64) % 2 = 1
StepOf(i, t) == (rows[i + 1][3 + ((t % 32) \div 8)] \div TwoTo(7 - (t % 8))) % 2 = 1

\* C15: a tick plays no row that is muted, and when a row is soloed it plays
\* no row that is not.
C15_MuteSoloPrecedence ==
    lastOp = "playerTick"
    => \A k \in 1..Len(player.fired) :
          LET i == player.fired[k].index
          IN  /\ ~MuteOf(i)
              /\ (\E j \in 1..(numRows - 1) : SoloOf(j)) => SoloOf(i)

\* C15, its case: at a tick row 1 is soloed and played, row 2 is soloed and
\* muted with its step set, row 5 has its step set and is not soloed.
C15_Witness ==
    /\ lastOp = "playerTick"
    /\ SoloOf(1) /\ ~MuteOf(1)
    /\ \E k \in 1..Len(player.fired) : player.fired[k].index = 1
    /\ SoloOf(2) /\ MuteOf(2) /\ StepOf(2, player.nextTick - 1)
    /\ ~SoloOf(5) /\ StepOf(5, player.nextTick - 1)

\* C19: the value of every row has settings in 0..65535 and notes that is
\* not negative.
C19_RowValueUnsigned ==
    \A i \in 1..Len(rows) :
       LET v == groupValue(rows[i])
       IN  /\ v.settings >= 0 /\ v.settings <= 65535
           /\ v.notes >= 0

(***************************************************************************)
(* The rows and a MidiOutput: switches are clicked and the ticks of the    *)
(* clock are handed to MidiOutput.processTick.                             *)
(***************************************************************************)
MaxMidiTick == 4    \* the last tick handed to the MidiOutput

\* The switches [row, byte, bitPosition] that are clicked: the MIDI bit of
\* the SET row, bit 0 of its scale byte, the mute of row 1, bit 0 of the
\* note of row 2 and the first two steps of row 2.
MidiSwitches == {<<0, 6, 6>>, <<0, 4, 8>>, <<1, 1, 2>>, <<2, 1, 8>>, <<2, 3, 1>>, <<2, 3, 2>>}
MidiAccessStates == {"unsupported", "denied", "empty", "output"}

\* A click on a switch: toggleBit.
MidiToggleBit ==
    /\ \E sw \in MidiSwitches :
          rows' = [rows EXCEPT ![sw[1] + 1][sw[2]] = toggleBit(@, sw[3])]
    /\ lastOp' = "toggleBit"
    /\ UNCHANGED midi
    /\ UNCHANGED outsideMidi

\* A tick of the clock: processTick with the values of the rows.
MidiTick ==
    /\ midi.nextTick <= MaxMidiTick
    /\ \E midiAccess \in MidiAccessStates :
          midi' = [midiProcessTick(midi, midi.nextTick, getAllRowValues(rows),
                                   groupValue(rows[1]).notes, midiAccess)
                      EXCEPT !.nextTick = @ + 1]
    /\ lastOp' = "midiTick"
    /\ UNCHANGED rows
    /\ UNCHANGED outsideMidi

NextMidi ==
    \/ MidiToggleBit
    \/ MidiTick

SpecMidi == Init /\ [][NextMidi]_vars

\* The (channel, note) pairs that the eligible rows activate at tick t, read
\* from the bytes of the rows.
NoteOf(i) ==
    LET scaleByte == rows[1][4]
    IN  21 + (scaleByte \div 4) + SCALE_OFFSETS[(scaleByte % 4) + 1][(rows[i + 1][1] % 8) + 1]
ChannelOf(i) == (rows[i + 1][1] \div 8) % 8
EligibleRow(i) ==
    /\ ~MuteOf(i)
    /\ (\E j \in 1..(numRows - 1) : SoloOf(j)) => SoloOf(i)
ActivatedPairs(t) ==
    {<< ChannelOf(i), NoteOf(i) >> :
        i \in {j \in 1..(numRows - 1) : EligibleRow(j) /\ StepOf(j, t)}}
NoteOffPairs ==
    {<< midi.sent[k][1] - 128, midi.sent[k][2] >> :
        k \in {j \in 1..Len(midi.sent) : midi.sent[j][1] < 144}}

\* C20: a tick with output enabled sends a note off for exactly the
\* (channel, note) pairs that were sounding before it and that no eligible
\* row activates at this tick.
C20_NoteOffOnlyForSilentPairs ==
    (lastOp = "midiTick" /\ midi.ran /\ ~midi.threw)
    => NoteOffPairs = midi.before \ ActivatedPairs(midi.nextTick - 1)

\* The messages of the last tick that are a note on.
NoteOnsSent == {k \in 1..Len(midi.sent) : midi.sent[k][1] >= 144}

\* C21: a tick processed while the MIDI bit of the SET row is 0 sends a note
\* off for every note that was sounding, leaves no active note and sends no
\* note on.
C21_DisabledSilencesAll ==
    (lastOp = "midiTick" /\ ~isMidiEnabled(groupValue(rows[1]).notes))
    => /\ midi.activeNotes = <<>>
       /\ NoteOffPairs = midi.before
       /\ NoteOnsSent = {}

\* C21, its case: notes were sounding when the tick came with the bit at 0.
C21_Witness ==
    /\ lastOp = "midiTick"
    /\ ~isMidiEnabled(groupValue(rows[1]).notes)
    /\ Cardinality(midi.before) >= 2
    /\ midi.activeNotes = <<>>

(***************************************************************************)
(* The tempo functions of SequencerClock over every 16-bit settings value: *)
(* the base tempo is raised, the low bits of the second byte are cleared,  *)
(* and ticks of an external clock are put to shouldProcessTick.            *)
(***************************************************************************)
MaxTempoTick == 70    \* the last tick of the external clock

\* The settings whose ticks are filtered: base tempo 0x78 with each of the
\* eight values of bits 7-5 of the second byte (divide and multiply by 1, 2,
\* 4 and 8), and 0x0000 and 0x00E0 (base tempo 0).
FilteredSettings == {30720 + 32 * k : k \in 0..7} \cup {0, 224}

InitTempo ==
    /\ clock = NewClock
    /\ now = 0
    /\ app = NewApp
    /\ lastOp = "new"
    /\ calls = <<>>
    /\ stopInEffect = FALSE
    /\ emitted = 0
    /\ sync = NewSync
    /\ lastMsg = NoMsg
    /\ prev = RoleOf(NewSync)
    /\ preset = NewPreset
    /\ euclid = NewEuclid
    /\ rows = NewRows
    /\ player = NewPlayer
    /\ midi = NewMidi
    /\ rowSettings = NewRowSettings
    /\ editor = NewEditor
    /\ peer = NewPeer
    /\ \E settings \in 0..(TwoTo(16) - 1) : tempo = TempoOf(settings)

\* The base tempo switch goes up by one: calculateBPM of the new settings.
TempoRaise ==
    /\ tempo.settings + 256 < TwoTo(16)
    /\ tempo' = [TempoOf(tempo.settings + 256) EXCEPT
                    !.prevSettings = tempo.settings, !.prevBPM = tempo.bpm]
    /\ lastOp' = "tempoRaise"
    /\ UNCHANGED outsideTempo

\* Bits 4-0 of the second switch are cleared: calculateBPM of the new settings.
TempoClearLowBits ==
    /\ tempo.settings % 32 # 0
    /\ tempo' = [TempoOf(tempo.settings - (tempo.settings % 32)) EXCEPT
                    !.prevSettings = tempo.settings, !.prevBPM = tempo.bpm]
    /\ lastOp' = "tempoClearLowBits"
    /\ UNCHANGED outsideTempo

\* A tick of the external clock: shouldProcessTick(tickCount, settings).
TempoTick ==
    /\ tempo.settings \in FilteredSettings
    /\ tempo.tickCount <= MaxTempoTick
    /\ tempo' = [tempo EXCEPT
                    !.tickCount = @ + 1,
                    !.processed = shouldProcessTick(tempo.tickCount, tempo.settings),
                    !.effective = calculateEffectiveTickCount(tempo.tickCount,
                                                              tempo.settings),
                    !.accepted = IF shouldProcessTick(tempo.tickCount, tempo.settings)
                                 THEN @ + 1 ELSE @]
    /\ lastOp' = "tempoTick"
    /\ UNCHANGED outsideTempo

NextTempo ==
    \/ TempoRaise
    \/ TempoClearLowBits
    \/ TempoTick

SpecTempo == InitTempo /\ [][NextTempo]_vars

\* The fields of settings, read from its bits.
BaseTempoOf(settings) == settings \div 256
IsMultiplyOf(settings) == (settings \div 128) % 2 = 1
ExponentOf(settings) == (settings \div 32) % 4

\* C22: the BPM (in units of 1 / BPMScale) is baseTempo * 2^e / 4 when
\* isMultiply and baseTempo / (2^e * 4) otherwise, exactly; it does not
\* decrease when baseTempo grows with isMultiply and the exponent fixed, it
\* does not depend on bits 4-0 of the second byte, and it is 0 when
\* baseTempo is 0.
C22_CalculateBPM ==
    LET b == BaseTempoOf(tempo.settings)
        e == ExponentOf(tempo.settings)
    IN  /\ IF IsMultiplyOf(tempo.settings)
           THEN tempo.bpm * 4 = BPMScale * b * TwoTo(e)
           ELSE tempo.bpm * 4 * TwoTo(e) = BPMScale * b
        /\ (/\ IsMultiplyOf(tempo.prevSettings) = IsMultiplyOf(tempo.settings)
            /\ ExponentOf(tempo.prevSettings) = e
            /\ BaseTempoOf(tempo.prevSettings) <= b)
           => tempo.prevBPM <= tempo.bpm
        /\ (tempo.prevSettings \div 32 = tempo.settings \div 32)
           => tempo.prevBPM = tempo.bpm
        /\ (b = 0) => (tempo.bpm = 0)

\* C22, its case: the base tempo was raised in a divide-by-8 setting with
\* low bits set, and the BPM grew by less than one.
C22_Witness ==
    /\ lastOp = "tempoRaise"
    /\ ~IsMultiplyOf(tempo.settings) /\ ExponentOf(tempo.settings) = 3
    /\ tempo.settings % 32 = 31
    /\ tempo.prevBPM < tempo.bpm
    /\ tempo.bpm < tempo.prevBPM + BPMScale

\* C23, as stated: with settings 0x7800 the BPM is 30 and the ticks that
\* shouldProcessTick accepts are exactly the multiples of 32.
C23_EndToEndRatio32 ==
    tempo.settings = 30720
    => /\ tempo.bpm = 30 * BPMScale
       /\ lastOp = "tempoTick"
          => (tempo.processed <=> ((tempo.tickCount - 1) % 32 = 0))

\* C23, amended: with settings 0x7800 the BPM is 30 and the ticks that
\* shouldProcessTick accepts are exactly the multiples of 8 (ratio 1/8).
C23_EndToEndRatio8 ==
    tempo.settings = 30720
    => /\ tempo.bpm = 30 * BPMScale
       /\ lastOp = "tempoTick"
          => (tempo.processed <=> ((tempo.tickCount - 1) % 8 = 0))

\* C23, its case: tick 40 of the external clock is accepted with settings
\* 0x7800.
C23_Witness ==
    /\ tempo.settings = 30720
    /\ lastOp = "tempoTick"
    /\ tempo.tickCount - 1 = 40
    /\ tempo.processed

\* The mode of instrument row i, read from its bytes, and whether the last
\* tick played it.
ModeOf(i) == rows[i + 1][2] % 8
FiredRow(i) == \E k \in 1..Len(player.fired) : player.fired[k].index = i

\* The Euclidean trigger of row i at tick t, computed from its notes alone.
EuclideanStepOf(i, t) ==
    Truthy(isStepActiveEuclidean(NewPlayer.euclideanCache, i,
                                 groupValue(rows[i + 1]).notes, t, 0).result)

\* C24: at a tick an eligible row in mode 0 is played iff bit
\* 31 - (t mod 32) of its notes is set, one in mode 1 iff its Euclidean
\* trigger is active, and one in modes 2-7 is not played.
C24_TriggerByMode ==
    (lastOp = "playerTick" /\ player.ran)
    => \A i \in 1..(numRows - 1) :
          EligibleRow(i)
          => LET t == player.nextTick - 1
             IN  /\ (ModeOf(i) = 0) => (FiredRow(i) <=> StepOf(i, t))
                 /\ (ModeOf(i) = 1) => (FiredRow(i) <=> EuclideanStepOf(i, t))
                 /\ (ModeOf(i) >= 2) => ~FiredRow(i)

\* C28: a tick plays every eligible row whose step is set, whatever the
\* modes of the other rows, and a row in mode 1 does not end it.
C28_RowsIndependent ==
    (lastOp = "playerTick" /\ player.ran)
    => /\ ~player.threw
       /\ \A i \in 1..(numRows - 1) :
             (EligibleRow(i) /\ ModeOf(i) = 0 /\ StepOf(i, player.nextTick - 1))
             => FiredRow(i)

(***************************************************************************)
(* extractRowSettings over every 16-bit settings value.                    *)
(***************************************************************************)
InitRowSettings ==
    /\ clock = NewClock
    /\ now = 0
    /\ app = NewApp
    /\ lastOp = "new"
    /\ calls = <<>>
    /\ stopInEffect = FALSE
    /\ emitted = 0
    /\ sync = NewSync
    /\ lastMsg = NoMsg
    /\ prev = RoleOf(NewSync)
    /\ preset = NewPreset
    /\ euclid = NewEuclid
    /\ rows = NewRows
    /\ player = NewPlayer
    /\ midi = NewMidi
    /\ tempo = NewTempo
    /\ editor = NewEditor
    /\ peer = NewPeer
    /\ \E settings \in 0..(TwoTo(16) - 1) : rowSettings = RowSettingsOf(settings)

ExtractRowSettings ==
    /\ ~rowSettings.extracted
    /\ rowSettings' = [rowSettings EXCEPT
                          !.extracted = TRUE,
                          !.fields = extractRowSettings(rowSettings.settings)]
    /\ lastOp' = "extractRowSettings"
    /\ UNCHANGED outsideRowSettings

NextRowSettings == ExtractRowSettings

SpecRowSettings == InitRowSettings /\ [][NextRowSettings]_vars

BitOf(b) == IF b THEN 1 ELSE 0

\* C25: the six fields lie in their ranges and, put back at their bit
\* positions (15, 14, 13-11, 10-8, 7-3, 2-0), give the settings.
C25_RowSettingsPartition ==
    rowSettings.extracted
    => LET f == rowSettings.fields
       IN  /\ f.solo \in BOOLEAN /\ f.mute \in BOOLEAN
           /\ f.midiChannel \in 0..7 /\ f.note \in 0..7
           /\ f.mode \in 0..7 /\ f.modeSettings \in 0..31
           /\ rowSettings.settings =
                 BitOf(f.solo) * 32768 + BitOf(f.mute) * 16384 + f.midiChannel * 2048
                 + f.note * 256 + f.modeSettings * 8 + f.mode

\* C25, its case: settings 0xA5C3 were decoded into solo, channel 4, note 5,
\* modeSettings 24 and mode 3.
C25_Witness ==
    /\ rowSettings.extracted
    /\ rowSettings.settings = 42435
    /\ rowSettings.fields.solo /\ ~rowSettings.fields.mute
    /\ rowSettings.fields.midiChannel = 4 /\ rowSettings.fields.note = 5
    /\ rowSettings.fields.modeSettings = 24 /\ rowSettings.fields.mode = 3

(***************************************************************************)
(* The Euclidean cache of a SamplePlayer: isStepActiveEuclidean is called  *)
(* as a method for two rows whose notes change from call to call.          *)
(***************************************************************************)
CacheRows == {1, 2}
CacheSteps == {0, 3, 4}
CachePulses == {2, 5}
CacheRotations == {128, 255}
CacheIncrements == {0, 129}
CacheTicks == {7}

EuclidCall ==
    /\ \E index \in CacheRows, steps \in CacheSteps, pulses \in CachePulses,
          rotation \in CacheRotations, increment \in CacheIncrements,
          tickCount \in CacheTicks :
          LET row == EuclidRow(0, steps, pulses, rotation, increment)
              notes == groupValue(row).notes
              g == getEuclideanPattern(euclid.cache, index, notes)
              r == isStepActiveEuclidean(euclid.cache, index, notes, tickCount, 0)
          IN  euclid' = [euclid EXCEPT !.row = row,
                                       !.cache = r.cache,
                                       !.index = index,
                                       !.entry = g.entry,
                                       !.hit = (~euclid.cache[index].isNull
                                                /\ r.cache = euclid.cache
                                                /\ ~g.entry.isNull),
                                       !.lastTick = tickCount,
                                       !.result = r.result]
    /\ lastOp' = "euclidCall"
    /\ UNCHANGED outsideEuclid

NextEuclidCache == EuclidCall

SpecEuclidCache == Init /\ [][NextEuclidCache]_vars

C29_CacheIsMemoisation ==
    lastOp = "euclidCall"
    => LET notes == groupValue(euclid.row).notes
           fresh == getEuclideanPattern(NewEuclid.cache, euclid.index, notes).entry
       IN  /\ euclid.entry = fresh
           /\ ~fresh.isNull
              => /\ fresh.pattern = generateEuclideanPattern(euclid.row[3],
                                                             Min(euclid.row[3], euclid.row[4]))
                 /\ fresh.totalSteps = euclid.row[3]
                 /\ fresh.pulses = Min(euclid.row[3], euclid.row[4])
           /\ euclid.result
                 = isStepActiveEuclidean(NewEuclid.cache, euclid.index, notes,
                                         euclid.lastTick, 0).result

\* C29, its case: the call was answered from the cache of its row while the
\* other row holds an entry of other parameters.
C29_Witness ==
    /\ lastOp = "euclidCall"
    /\ euclid.hit
    /\ euclid.index = 2
    /\ ~euclid.cache[1].isNull
    /\ euclid.cache[1].totalSteps # euclid.cache[2].totalSteps
    /\ euclid.cache[1].pulses # euclid.cache[2].pulses

(***************************************************************************)
(* The page with its clock: switches of the control row are clicked and    *)
(* presets are loaded. Every switch whose value changes sends a change     *)
(* event to the control row, whose listener is updateClockBPM. The history *)
(* variables of the clock are left as they are.                            *)
(***************************************************************************)
\* The switches [byte, bitPosition] of the control row that are clicked: the
\* play bit, bit 6 of the base tempo and the multiply bit.
PageSwitches == {<<6, 8>>, <<1, 2>>, <<2, 1>>}

\* The tokens that are loaded: DEFAULT_PRESET and a preset saved with every
\* switch at 0.
LoadedPresets == {DEFAULT_PRESET, [i \in 1..68 |-> "A"]}

\* The control row as updateClockBPM reads it: setRow.value.
controlRowOf(a, row) ==
    [a EXCEPT !.settings = groupValue(row).settings,
              !.playBit = groupValue(row).notes % 2]

\* setAllBytes of the control row from switch i on: a switch whose value
\* changes dispatches change, and updateClockBPM runs before the next switch
\* is written.
RECURSIVE setControlRowBytes(_, _, _, _, _, _)
setControlRowBytes(c, a, row, bytes, i, t) ==
    IF i > Len(bytes) \/ i > Len(row) THEN [clock |-> c, app |-> a, row |-> row]
    ELSE IF clampByte(bytes[i]) = row[i]
    THEN setControlRowBytes(c, a, row, bytes, i + 1, t)
    ELSE LET row1 == [row EXCEPT ![i] = clampByte(bytes[i])]
             a1 == controlRowOf(a, row1)
         IN  setControlRowBytes(updateClockBPM(c, a1, t), a1, row1, bytes, i + 1, t)

\* A click on a switch of the control row.
PageToggleBit ==
    /\ clock.awaiting < MaxAwaiting
    /\ clock.nextTimerId <= MaxTimerId
    /\ \E sw \in PageSwitches :
          LET row1 == [rows[1] EXCEPT ![sw[1]] = toggleBit(@, sw[2])]
          IN  /\ rows' = [rows EXCEPT ![1] = row1]
              /\ app' = controlRowOf(app, row1)
              /\ clock' = updateClockBPM(clock, controlRowOf(app, row1), now)
    /\ lastOp' = "pageToggleBit"
    /\ calls' = <<>>
    /\ UNCHANGED now
    /\ UNCHANGED outsidePage

\* loadPresetData / loadFromURL: decodePreset, then applyPresetData.
PageLoadPreset ==
    /\ clock.awaiting < MaxAwaiting
    /\ clock.nextTimerId <= MaxTimerId
    /\ \E chars \in LoadedPresets :
          LET presetData == decodePreset(StringToken(chars))
              applied == applyPresetData(rows, presetData)
              r == setControlRowBytes(clock, app, rows[1], applied[1], 1, now)
          IN  /\ rows' = applied
              /\ app' = r.app
              /\ clock' = r.clock
    /\ lastOp' = "pageLoadPreset"
    /\ calls' = <<>>
    /\ UNCHANGED now
    /\ UNCHANGED outsidePage

\* The first interaction, the end of clock.init(), the end of the loading.
PageInteract ==
    /\ app.phase = "idle"
    /\ app' = [app EXCEPT !.phase = "init"]
    /\ lastOp' = "interact"
    /\ calls' = <<>>
    /\ UNCHANGED <<clock, now, rows>>
    /\ UNCHANGED outsidePage

PageInitDone ==
    /\ app.phase = "init"
    /\ app' = [app EXCEPT !.phase = "loading"]
    /\ \E st \in {"suspended", "running"} : clock' = init(clock, st)
    /\ lastOp' = "initDone"
    /\ calls' = <<>>
    /\ UNCHANGED <<now, rows>>
    /\ UNCHANGED outsidePage

PageLoadDone ==
    /\ app.phase = "loading"
    /\ clock.awaiting < MaxAwaiting
    /\ clock.nextTimerId <= MaxTimerId
    /\ app' = [app EXCEPT !.phase = "ready"]
    /\ clock' = updateClockBPM(onTick(clock, Listeners[1]), app', now)
    /\ lastOp' = "loadDone"
    /\ calls' = <<>>
    /\ UNCHANGED <<now, rows>>
    /\ UNCHANGED outsidePage

\* The await of a start() resolves.
PageStartResumed ==
    /\ clock.awaiting > 0
    /\ clock.nextTimerId <= MaxTimerId
    /\ clock' = startResumed(clock, now)
    /\ lastOp' = "startResumed"
    /\ calls' = <<>>
    /\ UNCHANGED <<now, app, rows>>
    /\ UNCHANGED outsidePage

NextPage ==
    \/ PageToggleBit
    \/ PageLoadPreset
    \/ PageInteract
    \/ PageInitDone
    \/ PageLoadDone
    \/ PageStartResumed

SpecPage == InitApp /\ [][NextPage]_vars

\* Bytes 3, 4 and 5 of the control row are those of before.
ControlBytesKept == \A k \in 4..6 : rows'[1][k] = rows[1][k]

\* No start() and no stop() of the clock in this step.
TransportKept ==
    /\ clock'.isRunning = clock.isRunning
    /\ clock'.awaiting = clock.awaiting

\* C27, as stated: a preset load leaves bytes 3, 4 and 5 of the control row
\* as they are and neither starts nor stops the transport.
C27_PresetLoadFrame ==
    [][lastOp' = "pageLoadPreset" => (ControlBytesKept /\ TransportKept)]_vars

\* C27, amended: a preset load leaves bytes 3, 4 and 5 of the control row,
\* and so the play bit, as they are; it starts the clock only when the play
\* bit is 1 and the base tempo it loads gives a BPM > 0, and stops it only
\* when the play bit is 0 or that BPM is 0.
C27_PresetLoadKeepsPlayBit ==
    [][lastOp' = "pageLoadPreset"
       => /\ ControlBytesKept
          /\ app'.playBit = app.playBit
          /\ ((clock'.isRunning /\ ~clock.isRunning) \/ clock'.awaiting > clock.awaiting)
             => canPlay(app')
          /\ (clock.isRunning /\ ~clock'.isRunning) => ~canPlay(app')]_vars

\* C27, its case: a preset was loaded while the play bit is 1 and the MIDI
\* bit is set, and its base tempo 0 stopped the clock.
C27_Witness ==
    /\ lastOp = "pageLoadPreset"
    /\ rows[1][6] = 1
    /\ rows[1][1] = 0
    /\ app.playBit = 1
    /\ app.phase = "ready"
    /\ ~clock.isRunning
    /\ clock.audioContext = "running"

\* The timer that scheduleNextTick set last, in the state after the step.
ScheduledDue == {x.due : x \in {y \in clock'.timers : y.id = clock'.timeoutId}}

\* C30: a start at time s schedules the first tick for s + I; a tick does
\* not fire before expectedTickTime, its scheduling cycle advances
\* expectedTickTime by exactly I, and when the tick is at most I late the
\* next one is scheduled for the new expectedTickTime, so that the n-th tick
\* is scheduled for s + n * I.
C30_DriftCorrection ==
    [][/\ (lastOp' \in {"start", "startResumed"} /\ ~clock.isRunning /\ clock'.isRunning)
          => /\ clock'.expectedTickTime = now + clock'.tickInterval
             /\ ScheduledDue = {now + clock'.tickInterval}
       /\ (lastOp' = "tick" /\ clock.tickInterval > 0)
          => /\ now >= clock.expectedTickTime
             /\ clock'.expectedTickTime = clock.expectedTickTime + clock.tickInterval
             /\ (now - clock.expectedTickTime <= clock.tickInterval)
                => ScheduledDue = {clock'.expectedTickTime}]_vars

\* C35: for every interleaving of start(), stop() and setBPM(), overlapping
\* start() calls included, at most one tick timer is pending at any time.
C35_SingleTimerChain == Cardinality(clock.timers) <= 1

\* C33: for every tempo setting with baseTempo > 0 the effective tick counts
\* of the ticks that shouldProcessTick accepts are 0, 1, 2, ... in order,
\* none repeated and none skipped (the k-th accepted tick has effective count
\* k - 1), and with baseTempo 0 no tick is accepted.
C33_RescalingGapFree ==
    lastOp = "tempoTick"
    => /\ (BaseTempoOf(tempo.settings) > 0 /\ tempo.processed)
          => tempo.effective = tempo.accepted - 1
       /\ BaseTempoOf(tempo.settings) = 0
          => (~tempo.processed /\ tempo.accepted = 0)

\* Divide by 8 (0x7860): the second accepted tick, raw tick 64, is effective
\* tick 1; and multiply by 2 (0x78A0): the third accepted tick is raw tick 8.
C33_Witness ==
    /\ lastOp = "tempoTick"
    /\ tempo.processed
    /\ \/ tempo.settings = 30816 /\ tempo.tickCount = 65 /\ tempo.effective = 1
       \/ tempo.settings = 30880 /\ tempo.tickCount = 9 /\ tempo.accepted = 3

(***************************************************************************)
(* The expert-mode shortcuts of the page: selection, copy and paste.       *)
(***************************************************************************)
MaxPastes == 1                      \* the calls of pasteBytes in a behaviour

SelectedRows == {0, 1, 2}           \* rowIndex of the bytes that are hovered
SelectedBytes == {0, 5}             \* byteIndex of the bytes that are hovered

\* A write to the settings row: its change listeners, updateClockBPM and the
\* one that clears the selection, run for every switch that changed.
EditorWritten(rs1, e1) ==
    LET r == setControlRowBytes(clock, app, rows[1], rs1[1], 1, now)
    IN  /\ rows' = rs1
        /\ clock' = r.clock
        /\ app' = r.app
        /\ editor' = IF rs1[1] # rows[1] THEN clearSelectionIfInactive(e1, rs1) ELSE e1

\* A click on the expert-mode switch of the settings row.
EditorToggleExpert ==
    /\ EditorWritten([rows EXCEPT ![1][6] = toggleBit(@, 7)], editor)
    /\ lastOp' = "toggleExpert"
    /\ UNCHANGED outsideEditor

\* The pointer enters a byte: setSelectedByteFromElement.
EditorSelect ==
    /\ isExpertModeActive(rows)
    /\ \E rowIndex \in SelectedRows, byteIndex \in SelectedBytes :
          editor' = setSelectedByte(editor, rows, rowIndex, byteIndex)
    /\ lastOp' = "select"
    /\ UNCHANGED <<rows, clock, app>>
    /\ UNCHANGED outsideEditor

\* The key C: pressed, held for 500 ms, held for 2000 ms.
EditorCopy ==
    /\ isExpertModeActive(rows)
    /\ ~editor.selectedByte.isNull
    /\ \/ editor' = copyByte(editor, rows)
       \/ editor' = copyHold(editor, rows)
       \/ editor' = copyEntireRow(editor, rows)
    /\ lastOp' = "copy"
    /\ UNCHANGED <<rows, clock, app>>
    /\ UNCHANGED outsideEditor

\* The key V: pasteBytes.
EditorPaste ==
    /\ isExpertModeActive(rows)
    /\ ~editor.selectedByte.isNull
    /\ editor.pastes < MaxPastes
    /\ EditorWritten(pasteBytes(editor, rows),
                     [editor EXCEPT !.pastes = @ + 1,
                                    !.before = [rows |-> rows,
                                                selectedByte |-> editor.selectedByte]])
    /\ lastOp' = "paste"
    /\ UNCHANGED outsideEditor

NextEditor ==
    \/ EditorToggleExpert
    \/ EditorSelect
    \/ EditorCopy
    \/ EditorPaste

SpecEditor == Init /\ [][NextEditor]_vars

\* The bytes of the page that the last paste changed, as <<row, byte>> from 0.
PasteChanged ==
    {rb \in (0..(numRows - 1)) \X (0..5) :
        rows[rb[1] + 1][rb[2] + 1] # editor.before.rows[rb[1] + 1][rb[2] + 1]}

PageListener == "samplePlayer"

\* The tick listener: samplePlayer.processTick(tickCount, rowValues) is
\* called and its promise dropped.
tickListener(p, tickCount) == [p EXCEPT !.pending = Append(@, tickCount)]

\* The setTimeout callback that schedules the next tick only once the
\* processTick calls have ended.
pageTimerCallbackAwaiting(c, p, t) ==
    IF ~c.isRunning THEN [clock |-> c, player |-> p]
    ELSE LET p1 == IF \E i \in 1..Len(c.listeners) : c.listeners[i] = PageListener
                   THEN tickListener(p, c.tickCount) ELSE p
         IN  [clock |-> IF p1.pending = <<>> THEN scheduleNextTick(emitTick(c), t)
                        ELSE emitTick(c),
              player |-> p1]

\* The setTimeout callback of scheduleNextTick on the page: emitTick calls
\* the listener, which returns once processTick has been called, and
\* scheduleNextTick follows.
pageTimerCallback(c, p, t) ==
    IF ~c.isRunning THEN [clock |-> c, player |-> p]
    ELSE LET p1 == IF \E i \in 1..Len(c.listeners) : c.listeners[i] = PageListener
                   THEN tickListener(p, c.tickCount) ELSE p
         IN  [clock |-> scheduleNextTick(emitTick(c), t), player |-> p1]

\* initializeSequencer: clock.init(), then clock.onTick(listener).
LoopInitialize ==
    /\ clock.audioContext = "none"
    /\ \E st \in {"suspended", "running"} : clock' = onTick(init(clock, st), PageListener)
    /\ lastOp' = "init"
    /\ calls' = <<>>
    /\ UNCHANGED <<now, app, stopInEffect, emitted>>
    /\ UNCHANGED outsideClock

\* A pending timer whose delay has elapsed fires.
LoopTimerFire ==
    /\ clock.nextTimerId <= MaxTimerId
    /\ \E x \in clock.timers :
          /\ x.due <= now
          /\ LET c == [clock EXCEPT !.timers = @ \ {x}]
                 r == pageTimerCallback(c, player, now)
             IN  /\ clock' = r.clock
                 /\ player' = r.player
                 /\ lastOp' = IF c.isRunning THEN "tick" ELSE "timerIdle"
                 /\ calls' = IF c.isRunning THEN emitTickCalls(c, {}) ELSE <<>>
                 /\ emitted' = IF c.isRunning THEN emitted + 1 ELSE emitted
    /\ UNCHANGED <<now, app, stopInEffect>>
    /\ UNCHANGED outsideLoop

\* A processTick call runs to its end: its awaits have resolved.
LoopSinkDone ==
    /\ \E k \in 1..Len(player.pending), audio \in AudioStates :
          player' = [processTick(player, player.pending[k], getAllRowValues(rows), audio)
                        EXCEPT !.pending = SubSeq(@, 1, k - 1) \o SubSeq(@, k + 1, Len(@))]
    /\ lastOp' = "sinkDone"
    /\ UNCHANGED rows
    /\ UNCHANGED outsidePlayer

NextLoop ==
    \/ LoopInitialize
    \/ Start
    \/ StartResumed
    \/ Stop
    \/ LoopTimerFire
    \/ LoopSinkDone
    \/ Elapse

SpecLoop == Init /\ [][NextLoop]_vars

\* C31: the step that emits a tick also schedules the next one, whether or
\* not processTick calls of earlier ticks are still running, and the
\* processTick call it starts is left running.
C31_LoopDoesNotAwaitSinks ==
    [][lastOp' = "tick"
       => /\ ScheduledDue # {}
          /\ clock'.timeoutId # clock.timeoutId
          /\ Len(player'.pending) = Len(player.pending) + 1]_vars

\* A tick has been emitted and the next one scheduled while the processTick
\* call of an earlier tick is still running: the two calls overlap.
C31_Witness ==
    /\ lastOp = "tick"
    /\ Len(player.pending) >= 2
    /\ \E x \in clock.timers : x.id = clock.timeoutId

\* The leader-announce of the tab that became leader with settings st.
AnnounceOf(st, maxBPM) ==
    [type |-> "leader-announce",
     data |-> [tabId |-> SelfId, bpm |-> LeaderArgs(st).bpm, maxBPM |-> maxBPM,
               settings |-> st]]

\* C40: every leader-announce a tab sends, the immediate one and the periodic
\* ones, carries the bpm, maxBPM and settings of the startLeader call that
\* made it leader; and startLeader on a tab that is leader already sends
\* nothing and changes neither those values nor the announce timer.
C40_AnnounceKeepsOriginalArgs ==
    [][/\ \A i \in 1..Len(sync'.posted) :
             sync'.posted[i].type = "leader-announce"
             => sync'.posted[i] = AnnounceOf(sync'.leaderSettings, sync'.leaderMaxBPM)
       /\ (lastOp' = "startLeader" /\ sync.isLeader)
          => /\ sync'.posted = <<>>
             /\ sync'.announceArgs = sync.announceArgs
             /\ sync'.leaderSettings = sync.leaderSettings
             /\ sync'.leaderMaxBPM = sync.leaderMaxBPM
             /\ sync'.leaderAnnounceInterval = sync.leaderAnnounceInterval]_vars

\* The periodic announce of a tab that became leader with settings 0x78C0.
C40_Witness ==
    /\ lastOp = "announceInterval"
    /\ sync.isLeader
    /\ sync.posted = <<AnnounceOf(30912, sync.leaderMaxBPM)>>

\* C37: in every state of a tab currentLeaderId is null or the id of a peer
\* in availableLeaders, it is never the tab's own id, and it is non-null only
\* while the tab is a follower; a leader that a handler has just elected was
\* seen within the last 3000 ms.
C37_LeaderIdWellFormed ==
    /\ sync.currentLeaderId # Null
       => /\ mapHas(sync.availableLeaders, sync.currentLeaderId)
          /\ sync.currentLeaderId # SelfId
          /\ sync.isFollower
    /\ (sync.currentLeaderId # Null /\ sync.currentLeaderId # prev.currentLeaderId
        /\ mapHas(sync.availableLeaders, sync.currentLeaderId))
       => ~Expired(mapGet(sync.availableLeaders, sync.currentLeaderId), now)

\* A sweep has replaced a leader that timed out by another one of the
\* registry.
C37_Witness ==
    /\ lastOp = "sweep"
    /\ prev.currentLeaderId # Null
    /\ sync.currentLeaderId # Null
    /\ sync.currentLeaderId # prev.currentLeaderId

LiveTimeStep == 500     \* ms by which LiveElapse advances the time
LiveMaxNow == 5000      \* the time stops advancing here
MaxInFlight == 2        \* messages of the peer that the channel holds

LivePeerStartLeader ==
    /\ ~peer.isLeader
    /\ Len(peer.inFlight) < MaxInFlight
    /\ peer' = peerStartLeader(peer, now)
    /\ lastOp' = "peerStartLeader"
    /\ UNCHANGED <<now, sync, lastMsg, prev>>
    /\ UNCHANGED outsideLive

LivePeerAnnounce ==
    /\ peer.isLeader
    /\ Len(peer.inFlight) < MaxInFlight
    /\ now >= peer.nextAnnounce
    /\ peer' = peerAnnounceInterval(peer, now)
    /\ lastOp' = "peerAnnounce"
    /\ UNCHANGED <<now, sync, lastMsg, prev>>
    /\ UNCHANGED outsideLive

LivePeerStopLeader ==
    /\ peer.isLeader
    /\ Len(peer.inFlight) < MaxInFlight
    /\ peer' = peerStopLeader(peer, now)
    /\ lastOp' = "peerStopLeader"
    /\ UNCHANGED <<now, sync, lastMsg, prev>>
    /\ UNCHANGED outsideLive

\* The channel delivers the oldest message of the peer: handleMessage.
LiveDeliver ==
    /\ peer.inFlight # <<>>
    /\ sync.channelOpen
    /\ sync' = handleMessage(Fresh(sync), peerMessage(Head(peer.inFlight)), now)
    /\ lastMsg' = peerMessage(Head(peer.inFlight))
    /\ peer' = [peer EXCEPT !.inFlight = Tail(@)]
    /\ prev' = RoleOf(sync)
    /\ lastOp' = "receive"
    /\ UNCHANGED now
    /\ UNCHANGED outsideLive

\* Time passes: no message stays in flight for 1500 ms, and an interval of
\* the peer that is due runs first.
LiveElapse ==
    /\ now + LiveTimeStep <= LiveMaxNow
    /\ peer.isLeader => now < peer.nextAnnounce
    /\ \A i \in 1..Len(peer.inFlight) :
          now + LiveTimeStep - peer.inFlight[i].sentAt < AnnouncePeriodMs
    /\ now' = now + LiveTimeStep
    /\ sync' = Fresh(sync)
    /\ lastOp' = "elapse"
    /\ lastMsg' = NoMsg
    /\ prev' = RoleOf(sync)
    /\ UNCHANGED peer
    /\ UNCHANGED outsideLive

NextLive ==
    \/ LivePeerStartLeader
    \/ LivePeerAnnounce
    \/ LivePeerStopLeader
    \/ LiveDeliver
    \/ StartFollower
    \/ StopFollower
    \/ Sweep
    \/ LiveElapse

SpecLive == Init /\ [][NextLive]_vars

\* C32: a sweep of a follower never takes away a leader that is still
\* leading and whose messages arrive less than 1500 ms after they were
\* posted: its announces keep lastSeen within 3000 ms.
C32_LiveLeaderNotTimedOut ==
    [][(lastOp' = "sweep" /\ peer.isLeader /\ sync.isFollower
        /\ sync.currentLeaderId = PeerId)
       => /\ sync'.currentLeaderId = PeerId
          /\ mapHas(sync'.availableLeaders, PeerId)
          /\ now - mapGet(sync.availableLeaders, PeerId).lastSeen < LeaderExpiryMs]_vars

\* A sweep 2500 ms after the last announce of the leader arrived left the
\* leader in place.
C32_Witness ==
    /\ lastOp = "sweep"
    /\ peer.isLeader
    /\ sync.currentLeaderId = PeerId
    /\ now - mapGet(sync.availableLeaders, PeerId).lastSeen >= 2500


(***************************************************************************)
(* The bookkeeping of MidiOutput, read from the messages it has sent since *)
(* construction.                                                           *)
(***************************************************************************)
\* The messages of the log sent on behalf of a key, in order.
MessagesOf(key) == SelectSeq(midi.log, LAMBDA e : e.key = key)
LoggedKeys == {midi.log[k].key : k \in 1..Len(midi.log)}
ActiveKeys == {midi.activeNotes[k].key : k \in 1..Len(midi.activeNotes)}

\* C38: for every (row, channel, note) key the note on and note off
\* messages alternate and begin with a note on, so a key that stays active
\* over consecutive ticks gets no second note on, and activeNotes holds
\* exactly the keys whose last message is a note on.
C38_NoteBookkeepingBalanced ==
    /\ \A key \in LoggedKeys :
          \A k \in 1..Len(MessagesOf(key)) :
             MessagesOf(key)[k].kind = (IF k % 2 = 1 THEN "on" ELSE "off")
    /\ ActiveKeys = {key \in LoggedKeys :
                        MessagesOf(key)[Len(MessagesOf(key))].kind = "on"}
    /\ \A k1, k2 \in 1..Len(midi.activeNotes) :
          midi.activeNotes[k1].key = midi.activeNotes[k2].key => k1 = k2

\* C38, its case: a key was switched on, off and on again, and another key
\* stayed active over two ticks with one note on before its note off.
C38_Witness ==
    /\ lastOp = "midiTick"
    /\ \E key \in ActiveKeys : Len(MessagesOf(key)) = 3
    /\ \E key \in LoggedKeys :
          /\ Len(MessagesOf(key)) = 2
          /\ MessagesOf(key)[2].tick >= MessagesOf(key)[1].tick + 2


\* C39: at a tick where some instrument row is soloed and every soloed row
\* is muted as well, no instrument row is played: the muted row does not
\* play and it still counts as a solo that silences the others.
C39_MutedSoloSilencesAll ==
    (/\ lastOp = "playerTick"
     /\ \E i \in 1..(numRows - 1) : SoloOf(i) /\ MuteOf(i)
     /\ \A j \in 1..(numRows - 1) : SoloOf(j) => MuteOf(j))
    => player.fired = <<>>

\* C39, its case: a tick went through its loops while row 1 alone was
\* soloed, and muted, with its step set, and row 5, neither muted nor
\* soloed and in step mode, had its step set too.
C39_Witness ==
    /\ lastOp = "playerTick" /\ player.ran /\ ~player.threw
    /\ SoloOf(1) /\ MuteOf(1) /\ StepOf(1, player.nextTick - 1)
    /\ \A j \in 2..(numRows - 1) : ~SoloOf(j)
    /\ ~MuteOf(5) /\ ModeOf(5) = 0 /\ StepOf(5, player.nextTick - 1)
    /\ player.fired = <<>>

====
